---- MODULE Spec2Model ----
(***************************************************************************)
(* Habit tracker backend: the tracking store and its write handlers, the   *)
(* habits router, and the analytics computations (streak, overview,        *)
(* per-habit analytics, heatmap, trends).                                  *)
(*                                                                         *)
(* Time.  A JavaScript Date is an instant in milliseconds.  The model      *)
(* counts instants in ticks, TicksPerDay ticks to the day, so that an      *)
(* instant can be a local midnight or a time of day past it.  The server's *)
(* local time is UTC + tz ticks, a fixed offset (no daylight saving).      *)
(* One user is modelled: every query of the code that filters on userId    *)
(* sees all records.                                                       *)
(***************************************************************************)
EXTENDS Integers, Sequences, FiniteSets, TLC

VARIABLES
    entries,   \* the TrackingEntry collection: a set of documents
    habits,    \* the Habit collection: habit id -> document
    reqs,      \* the tracking write requests in flight, one slot each
    nextId,    \* the next _id the store hands out
    now,       \* the instant new Date() / Date.now() returns
    tz,        \* offset of the server's local time from UTC, in ticks
    resp,      \* the last response of an atomic handler
    kept,      \* the response before it, where the client kept it
    auth       \* the frontend's AuthContext provider

vars == <<entries, habits, reqs, nextId, now, tz, resp, kept, auth>>

-----------------------------------------------------------------------------
(* Bounds of the model *)

TicksPerDay == 2
MaxDay == 2
MaxEntries == 2
MaxReqs == 2

-----------------------------------------------------------------------------
(* Dates *)

\* 24 * 60 * 60 * 1000 ms, one day, in ticks
DayMs == TicksPerDay

\* a date left at its time of day
KeepHours(t) == t

\* Date.setHours(0, 0, 0, 0): the local midnight at or before instant t
setHours0(t) == ((t + tz) \div TicksPerDay) * TicksPerDay - tz

\* the local calendar day (a day number) an instant falls on
LocalDay(t) == (t + tz) \div TicksPerDay

Max(a, b) == IF a >= b THEN a ELSE b
Min(a, b) == IF a <= b THEN a ELSE b

-----------------------------------------------------------------------------
(* JavaScript numbers.  A Number is an IEEE-754 double; the analytics      *)
(* divide two counts, multiply by 100 and round.  A double that is not 0   *)
(* is modelled by its 53 mantissa bits m[1..53], m[1] = 1 the leading bit, *)
(* and an exponent e: its value is the sum of m[i] * 2^(e - i).  Only      *)
(* non-negative numbers occur.                                             *)

MantissaBits == 53

Bits == 1..MantissaBits

Zero == [e |-> 0, m |-> [i \in Bits |-> 0]]

IsZero(x) == x.m[1] = 0

\* 2^k mod d, by repeated squaring
RECURSIVE Pow2Mod(_, _)
Pow2Mod(k, d) ==
    IF k = 0 THEN 1 % d
    ELSE LET h == Pow2Mod(k \div 2, d)
         IN IF k % 2 = 0 THEN (h * h) % d ELSE (2 * h * h) % d

\* the binary digit of weight 2^j of the quotient c / d
QuotientDigit(c, d, j) ==
    IF j >= 0 THEN ((c \div d) \div (2 ^ j)) % 2
    ELSE (2 * (((c % d) * Pow2Mod(-j - 1, d)) % d)) \div d

\* whether c / d has a digit 1 of weight below 2^j (j < 0)
QuotientTail(c, d, j) == ((c % d) * Pow2Mod(-j, d)) % d # 0

\* the weight of the leading digit 1 of c / d (c > 0), plus one
QuotientExponent(c, d) ==
    IF c >= d
    THEN CHOOSE e \in 1..31 : 2 ^ (e - 1) <= c \div d /\ c \div d < 2 ^ e
    ELSE -(CHOOSE z \in 0..31 : c * 2 ^ z < d /\ d <= c * 2 ^ (z + 1))

\* round to nearest, ties to even: the mantissa m (exact digits cut off
\* after 53) goes up by one unit when the first digit cut off is 1 and
\* either a later digit is 1 or m is odd
RoundToEven(e, m, guard, sticky) ==
    IF guard = 1 /\ (sticky \/ m[MantissaBits] = 1)
    THEN IF \A i \in Bits : m[i] = 1
         THEN [e |-> e + 1, m |-> [i \in Bits |-> IF i = 1 THEN 1 ELSE 0]]
         ELSE LET p == CHOOSE i \in Bits :
                         m[i] = 0 /\ \A j \in Bits : j > i => m[j] = 1
              IN [e |-> e,
                  m |-> [i \in Bits |-> IF i < p THEN m[i]
                                        ELSE IF i = p THEN 1 ELSE 0]]
    ELSE [e |-> e, m |-> m]

\* c / d for two counts c >= 0 and d > 0 (each is a double exactly)
Divide(c, d) ==
    IF c = 0 THEN Zero
    ELSE LET e == QuotientExponent(c, d)
         IN RoundToEven(e,
                        [i \in Bits |-> QuotientDigit(c, d, e - i)],
                        QuotientDigit(c, d, e - MantissaBits - 1),
                        QuotientTail(c, d, e - MantissaBits - 1))

LimbBits == 14

Limbs == 4

RECURSIVE SumBits(_, _, _)
\* the number whose binary digits are m[lo..hi], m[hi] the unit
SumBits(m, lo, hi) ==
    IF hi < lo THEN 0 ELSE m[hi] + 2 * SumBits(m, lo, hi - 1)

\* limb j (0 the lowest) of the mantissa read as a 56-digit number, the
\* mantissa bits below three leading zeros
MantissaLimb(m, j) ==
    LET hi == MantissaBits - j * LimbBits
        lo == Max(1, hi - LimbBits + 1)
    IN SumBits(m, lo, hi)

\* the limbs 0..4 of the mantissa (as a number) times k, limb 4 what is
\* left of the carry
TimesLimbs(m, k) ==
    LET B == 2 ^ LimbBits
        p0 == MantissaLimb(m, 0) * k
        p1 == MantissaLimb(m, 1) * k + p0 \div B
        p2 == MantissaLimb(m, 2) * k + p1 \div B
        p3 == MantissaLimb(m, 3) * k + p2 \div B
    IN <<p0 % B, p1 % B, p2 % B, p3 % B, p3 \div B>>

\* the binary digits of weight 2^0 .. 2^59 of the mantissa times k
TimesDigits(m, k) ==
    LET limbs == TimesLimbs(m, k)
    IN [b \in 0..(MantissaBits + 6) |->
          (limbs[b \div LimbBits + 1] \div (2 ^ (b % LimbBits))) % 2]

\* x * k for a double x >= 0 and a count k in 1..127
Times(x, k) ==
    IF IsZero(x) THEN Zero
    ELSE LET digits == TimesDigits(x.m, k)
             top == CHOOSE b \in (MantissaBits - 1)..(MantissaBits + 6) :
                       /\ digits[b] = 1
                       /\ \A c \in (b + 1)..(MantissaBits + 6) : digits[c] = 0
             cut == top - MantissaBits
         IN RoundToEven(x.e + cut + 1,
                        [i \in Bits |-> digits[top + 1 - i]],
                        IF cut >= 0 THEN digits[cut] ELSE 0,
                        \E b \in 0..(cut - 1) : digits[b] = 1)

\* Math.floor(x) for 0 <= x < 2^31
Floor(x) == IF x.e <= 0 THEN 0 ELSE SumBits(x.m, 1, Min(x.e, MantissaBits))

\* whether x has a fractional part
HasFraction(x) ==
    ~IsZero(x) /\ \E i \in Bits : i > x.e /\ x.m[i] = 1

\* Math.round(x): the nearest integer, a tie going up
MathRound(x) ==
    IF IsZero(x) \/ x.e < 0 THEN 0
    ELSE Floor(x) + x.m[x.e + 1]

\* x > n, x <= n for a double x and a count n
Gt(x, n) == Floor(x) > n \/ (Floor(x) = n /\ HasFraction(x))
Leq(x, n) == ~Gt(x, n)

\* x <= n, by the integer part and the fraction
AtMost(x, n) == Floor(x) < n \/ (Floor(x) = n /\ ~HasFraction(x))

\* x >= n, x < n for a double x and a count n
Geq(x, n) == Floor(x) >= n
Lt(x, n) == Floor(x) < n

-----------------------------------------------------------------------------
(* The collections *)

HabitIds == {"h1", "h2"}

None == 0

\* TrackingEntry documents of habit h
EntriesOf(h) == {e \in entries : e.habitId = h}

EntryById(S, id) == CHOOSE e \in S : e.id = id

HasId(S, id) == \E e \in S : e.id = id

\* the unique index {habitId, userId, date}: a write that would leave two
\* documents with the same key is rejected by the store (E11000)
DuplicateKey(S, doc) ==
    \E e \in S : e.id # doc.id /\ e.habitId = doc.habitId /\ e.date = doc.date

-----------------------------------------------------------------------------
(* Tracking write handlers.  Each await of a handler is a step of its own, *)
(* so that requests interleave as they do on the event loop.               *)

Reqs == 1..MaxReqs

Instants == 0..(MaxDay * TicksPerDay - 1)

Idle == [kind |-> "idle", pc |-> "idle", habitId |-> "h1", date |-> 0,
         completed |-> FALSE, hasDate |-> FALSE, id |-> None, status |-> 0]

Done(kind, status) == [Idle EXCEPT !.kind = kind, !.pc = "done", !.status = status]

\* POST /api/tracking, up to its second await: validation passed;
\* Habit.findOne({_id, userId, isActive}) answers 404 when it finds nothing;
\* entryDate = new Date(date) with setHours(0, 0, 0, 0);
\* TrackingEntry.findOne({habitId, userId, date: entryDate})
PostFindOne(r, h, t, c) ==
    /\ reqs[r].pc = "idle"
    /\ LET entryDate == setHours0(t)
           found == {e \in entries : e.habitId = h /\ e.date = entryDate}
       IN reqs' = [reqs EXCEPT ![r] =
             IF habits[h].isActive
             THEN [Idle EXCEPT !.kind = "post", !.pc = "save", !.habitId = h,
                               !.date = entryDate, !.completed = c,
                               !.id = IF found = {} THEN None
                                      ELSE (CHOOSE e \in found : TRUE).id]
             ELSE Done("post", 404)]
    /\ UNCHANGED <<entries, habits, nextId, now, tz, resp, kept, auth>>

\* existingEntry.save(): an update of the document by _id.  Saving a
\* document that was deleted meanwhile either changes nothing or throws
\* DocumentNotFoundError, depending on the Mongoose version.
PostSaveExisting(r) ==
    /\ reqs[r].kind = "post" /\ reqs[r].pc = "save" /\ reqs[r].id # None
    /\ IF HasId(entries, reqs[r].id)
       THEN /\ entries' = {IF e.id = reqs[r].id
                           THEN [e EXCEPT !.completed = reqs[r].completed]
                           ELSE e : e \in entries}
            /\ reqs' = [reqs EXCEPT ![r] = Done("post", 200)]
       ELSE /\ entries' = entries
            /\ \E s \in {200, 500} : reqs' = [reqs EXCEPT ![r] = Done("post", s)]
    /\ UNCHANGED <<habits, nextId, now, tz, resp, kept, auth>>

\* new TrackingEntry({...}).save(): an insert, which the unique index rejects
\* when a document with the same habit and date is there by now; the catch
\* block answers 500
PostSaveNew(r) ==
    /\ reqs[r].kind = "post" /\ reqs[r].pc = "save" /\ reqs[r].id = None
    /\ nextId <= MaxEntries
    /\ LET doc == [id |-> nextId, habitId |-> reqs[r].habitId,
                   date |-> reqs[r].date, completed |-> reqs[r].completed]
       IN IF DuplicateKey(entries, doc)
          THEN /\ reqs' = [reqs EXCEPT ![r] = Done("post", 500)]
               /\ UNCHANGED <<entries, nextId>>
          ELSE /\ entries' = entries \cup {doc}
               /\ nextId' = nextId + 1
               /\ reqs' = [reqs EXCEPT ![r] = Done("post", 201)]
    /\ UNCHANGED <<habits, now, tz, resp, kept, auth>>

\* PUT /api/tracking/:id: TrackingEntry.findOne({_id, userId}).  The body is
\* handed to the update as it came: the validators name completed, notes,
\* value, mood and difficulty, and let every other field of the schema pass.
\* The bodies modelled set either completed or date.
PutFindOne(r, id, hasD, c, t) ==
    /\ reqs[r].pc = "idle"
    /\ reqs' = [reqs EXCEPT ![r] =
          IF HasId(entries, id)
          THEN [Idle EXCEPT !.kind = "put", !.pc = "update", !.id = id,
                            !.hasDate = hasD,
                            !.completed = IF hasD THEN FALSE ELSE c,
                            !.date = IF hasD THEN t ELSE 0]
          ELSE Done("put", 404)]
    /\ UNCHANGED <<entries, habits, nextId, now, tz, resp, kept, auth>>

\* TrackingEntry.findByIdAndUpdate(id, req.body, {new, runValidators}): null,
\* answered 200, when the document is gone; E11000, answered 500, when the
\* new date is that of another document of the habit
PutUpdate(r) ==
    /\ reqs[r].kind = "put" /\ reqs[r].pc = "update"
    /\ IF ~HasId(entries, reqs[r].id)
       THEN /\ entries' = entries
            /\ reqs' = [reqs EXCEPT ![r] = Done("put", 200)]
       ELSE LET old == EntryById(entries, reqs[r].id)
                doc == IF reqs[r].hasDate
                       THEN [old EXCEPT !.date = reqs[r].date]
                       ELSE [old EXCEPT !.completed = reqs[r].completed]
            IN IF DuplicateKey(entries, doc)
               THEN /\ entries' = entries
                    /\ reqs' = [reqs EXCEPT ![r] = Done("put", 500)]
               ELSE /\ entries' = (entries \ {old}) \cup {doc}
                    /\ reqs' = [reqs EXCEPT ![r] = Done("put", 200)]
    /\ UNCHANGED <<habits, nextId, now, tz, resp, kept, auth>>

\* DELETE /api/tracking/:id: TrackingEntry.findOne({_id, userId})
DeleteFindOne(r, id) ==
    /\ reqs[r].pc = "idle"
    /\ reqs' = [reqs EXCEPT ![r] =
          IF HasId(entries, id)
          THEN [Idle EXCEPT !.kind = "delete", !.pc = "delete", !.id = id]
          ELSE Done("delete", 404)]
    /\ UNCHANGED <<entries, habits, nextId, now, tz, resp, kept, auth>>

\* TrackingEntry.findByIdAndDelete(id)
DeleteDo(r) ==
    /\ reqs[r].kind = "delete" /\ reqs[r].pc = "delete"
    /\ entries' = {e \in entries : e.id # reqs[r].id}
    /\ reqs' = [reqs EXCEPT ![r] = Done("delete", 200)]
    /\ UNCHANGED <<habits, nextId, now, tz, resp, kept, auth>>

\* the response is sent; the slot serves the next request
Respond(r) ==
    /\ reqs[r].pc = "done"
    /\ reqs' = [reqs EXCEPT ![r] = Idle]
    /\ UNCHANGED <<entries, habits, nextId, now, tz, resp, kept, auth>>

-----------------------------------------------------------------------------
(* The habits router *)

NoResp == [kind |-> "none"]

\* the PUT routes of the habits router, in the order they are registered
PutRoutes == <<[path |-> "/:id", handler |-> "update"],
               [path |-> "/reorder", handler |-> "reorder"]>>

\* Express path matching on one path segment: a parameter matches any
\* segment, a literal only itself
RouteMatches(pattern, segment) ==
    IF pattern = "/:id" THEN TRUE ELSE pattern = "/reorder" /\ segment = "reorder"

\* Express hands the request to the first registered route that matches
FirstMatch(routes, segment) ==
    LET hits == {i \in 1..Len(routes) : RouteMatches(routes[i].path, segment)}
    IN IF hits = {} THEN "none"
       ELSE routes[CHOOSE i \in hits : \A j \in hits : i <= j].handler

\* Mongoose casts _id to an ObjectId: habit ids cast, other strings throw
CastsToObjectId(segment) == segment \in HabitIds

Orders == 0..2

\* PUT /api/habits/:id: every validator is optional; Habit.findOne({_id:
\* req.params.id, userId}) throws CastError for an id that is no ObjectId,
\* which the handler's catch answers with 500.  Mongoose drops the body
\* fields that are not in the schema.
UpdateHabit(segment, body) ==
    IF ~CastsToObjectId(segment)
    THEN [habits |-> habits, resp |-> [handler |-> "update", status |-> 500]]
    ELSE [habits |-> [habits EXCEPT
                        ![segment].order = IF body.hasOrder THEN body.order ELSE @,
                        ![segment].isActive =
                            IF body.hasActive THEN body.isActive ELSE @],
          resp |-> [handler |-> "update", status |-> 200]]

\* PUT /api/habits/reorder: Habit.findOneAndUpdate({_id: habitId, userId},
\* {order}) for each item of habitOrders
ReorderHabits(body) ==
    [habits |-> [h \in HabitIds |->
                   IF \E i \in 1..Len(body.habitOrders) :
                        body.habitOrders[i].habitId = h
                   THEN [habits[h] EXCEPT !.order =
                          body.habitOrders[
                            CHOOSE i \in 1..Len(body.habitOrders) :
                              /\ body.habitOrders[i].habitId = h
                              /\ \A j \in 1..Len(body.habitOrders) :
                                   body.habitOrders[j].habitId = h => j <= i
                          ].order]
                   ELSE habits[h]],
     resp |-> [handler |-> "reorder", status |-> 200]]

HabitBodies ==
    [hasOrder : BOOLEAN, order : Orders, hasActive : BOOLEAN,
     isActive : BOOLEAN, habitOrders : {<<>>}]

ReorderBodies ==
    {[hasOrder |-> FALSE, order |-> 0, hasActive |-> FALSE, isActive |-> FALSE,
      habitOrders |-> <<[habitId |-> h, order |-> o]>>] :
        h \in HabitIds, o \in Orders}

\* a PUT request to /api/habits/<segment>
PutHabits(segment, body) ==
    /\ LET handler == FirstMatch(PutRoutes, segment)
           out == IF handler = "update" THEN UpdateHabit(segment, body)
                  ELSE ReorderHabits(body)
       IN /\ habits' = out.habits
          /\ resp' = [kind |-> "habits", handler |-> handler,
                      status |-> out.resp.status,
                      segment |-> segment, habitOrders |-> body.habitOrders,
                      before |-> habits]
    /\ UNCHANGED <<entries, reqs, nextId, now, tz, kept, auth>>

-----------------------------------------------------------------------------
(* The frontend: AuthContext.  The provider's reducer state, the two       *)
(* localStorage items, and the calls of login, register, updateProfile and *)
(* initializeAuth that are waiting for the server's answer.  The server's  *)
(* answer to a call is any of the answers it can give.                     *)

\* null, where the value is otherwise a string
null == "null"

\* the users the server can answer with; a user's token
Users == {"u1", "u2"}

TokenOf(u) == IF u = "u1" THEN "t1" ELSE "t2"

\* the calls of the provider's functions that can be in flight together
MaxCalls == 2

Calls == 1..MaxCalls

\* const initialState, given what localStorage holds when the module loads
initialState(localStorage) ==
    [user |-> null, token |-> localStorage.token, loading |-> FALSE,
     error |-> null]

authReducer(state, action) ==
    CASE action.type = "AUTH_START" ->
            [state EXCEPT !.loading = TRUE, !.error = null]
      [] action.type = "AUTH_SUCCESS" ->
            [state EXCEPT !.loading = FALSE, !.user = action.payload.user,
                          !.token = action.payload.token, !.error = null]
      [] action.type = "AUTH_FAILURE" ->
            [state EXCEPT !.loading = FALSE, !.error = action.payload,
                          !.user = null, !.token = null]
      [] action.type = "AUTH_LOGOUT" ->
            [state EXCEPT !.user = null, !.token = null, !.error = null]
      [] action.type = "UPDATE_USER" ->
            [state EXCEPT !.user = action.payload]
      [] action.type = "CLEAR_ERROR" ->
            [state EXCEPT !.error = null]
      [] OTHER -> state

\* dispatch(action)
dispatch(a, action) == [a EXCEPT !.state = authReducer(a.state, action)]

EmptyStorage == [token |-> null, user |-> null]

NoCall == [fn |-> "none", early |-> FALSE]

\* a call that waits for its answer; early says whether logout() has run
\* since the call was made
Pending(fn) == [fn |-> fn, early |-> FALSE]

\* the provider before its effect has run.  loggedOut says whether logout()
\* has run and no login or register made after it has succeeded since.
AuthProvider(localStorage) ==
    [state |-> initialState(localStorage), localStorage |-> localStorage,
     calls |-> [c \in Calls |-> NoCall], verify |-> NoCall,
     mounted |-> FALSE, loggedOut |-> FALSE]

\* the provider of a page that nobody has opened
NoProvider == AuthProvider(EmptyStorage)

ServerVars == <<entries, habits, reqs, nextId, now, tz, resp, kept>>

\* useEffect(() => { initializeAuth() }, []), up to its await
initializeAuth ==
    /\ ~auth.mounted
    /\ auth' =
         IF auth.localStorage.token # null /\ auth.localStorage.user # null
         THEN [dispatch(auth, [type |-> "AUTH_SUCCESS",
                               payload |-> [user |-> auth.localStorage.user,
                                            token |-> auth.localStorage.token]])
                 EXCEPT !.mounted = TRUE, !.verify = Pending("verifyToken")]
         ELSE [auth EXCEPT !.mounted = TRUE]
    /\ UNCHANGED ServerVars

\* authAPI.verifyToken() answers; a rejection goes to the catch block
verifySettled(ok) ==
    /\ auth.verify.fn = "verifyToken"
    /\ auth' =
         IF ok THEN [auth EXCEPT !.verify = NoCall]
         ELSE [dispatch(auth, [type |-> "AUTH_LOGOUT"])
                 EXCEPT !.verify = NoCall, !.localStorage = EmptyStorage]
    /\ UNCHANGED ServerVars

\* login(email, password) and register(name, email, password), up to the
\* await
login(c) ==
    /\ auth.mounted /\ auth.calls[c] = NoCall
    /\ auth' = [dispatch(auth, [type |-> "AUTH_START"])
                  EXCEPT !.calls[c] = Pending("login")]
    /\ UNCHANGED ServerVars

register(c) ==
    /\ auth.mounted /\ auth.calls[c] = NoCall
    /\ auth' = [dispatch(auth, [type |-> "AUTH_START"])
                  EXCEPT !.calls[c] = Pending("register")]
    /\ UNCHANGED ServerVars

\* the answer to login or register is there: the token and the user are
\* stored and AUTH_SUCCESS is dispatched
AuthResolved(c, u) ==
    /\ auth.calls[c].fn \in {"login", "register"}
    /\ auth' = [dispatch(auth, [type |-> "AUTH_SUCCESS",
                                payload |-> [user |-> u, token |-> TokenOf(u)]])
                  EXCEPT !.calls[c] = NoCall,
                         !.localStorage = [token |-> TokenOf(u), user |-> u],
                         !.loggedOut = IF auth.calls[c].early THEN @ ELSE FALSE]
    /\ UNCHANGED ServerVars

\* login or register is rejected: the catch block dispatches AUTH_FAILURE
AuthRejected(c) ==
    /\ auth.calls[c].fn \in {"login", "register"}
    /\ auth' = [dispatch(auth, [type |-> "AUTH_FAILURE", payload |-> "failed"])
                  EXCEPT !.calls[c] = NoCall]
    /\ UNCHANGED ServerVars

\* logout(): authAPI.logout() removes both items, then AUTH_LOGOUT
logout ==
    /\ auth.mounted
    /\ auth' = [dispatch(auth, [type |-> "AUTH_LOGOUT"])
                  EXCEPT !.localStorage = EmptyStorage,
                         !.loggedOut = TRUE,
                         !.calls = [c \in Calls |->
                                      IF auth.calls[c] = NoCall THEN NoCall
                                      ELSE [auth.calls[c] EXCEPT !.early = TRUE]],
                         !.verify = IF auth.verify = NoCall THEN NoCall
                                    ELSE [auth.verify EXCEPT !.early = TRUE]]
    /\ UNCHANGED ServerVars

\* updateProfile(data), up to the await: nothing is dispatched
updateProfile(c) ==
    /\ auth.mounted /\ auth.calls[c] = NoCall
    /\ auth' = [auth EXCEPT !.calls[c] = Pending("updateProfile")]
    /\ UNCHANGED ServerVars

\* the answer to updateProfile: the user is stored and UPDATE_USER is
\* dispatched
ProfileResolved(c, u) ==
    /\ auth.calls[c].fn = "updateProfile"
    /\ auth' = [dispatch(auth, [type |-> "UPDATE_USER", payload |-> u])
                  EXCEPT !.calls[c] = NoCall, !.localStorage.user = u]
    /\ UNCHANGED ServerVars

\* updateProfile is rejected: a toast, and the error is thrown on
ProfileRejected(c) ==
    /\ auth.calls[c].fn = "updateProfile"
    /\ auth' = [auth EXCEPT !.calls[c] = NoCall]
    /\ UNCHANGED ServerVars

clearError ==
    /\ auth.mounted
    /\ auth' = dispatch(auth, [type |-> "CLEAR_ERROR"])
    /\ UNCHANGED ServerVars

-----------------------------------------------------------------------------
(* The server: tracking writes *)

InitHabits ==
    [h \in HabitIds |->
       [isActive |-> (h = "h1"), order |-> IF h = "h1" THEN 0 ELSE 1,
        streakTarget |-> IF h = "h1" THEN 7 ELSE 1,
        category |-> IF h = "h1" THEN "health" ELSE "fitness"]]

Init ==
    /\ entries = {}
    /\ habits = InitHabits
    /\ reqs = [r \in Reqs |-> Idle]
    /\ kept = NoResp
    /\ auth = NoProvider
    /\ nextId = 1
    /\ now = 0
    /\ tz = 0
    /\ resp = NoResp

Next ==
    \/ \E r \in Reqs, h \in HabitIds, t \in Instants, c \in BOOLEAN :
         PostFindOne(r, h, t, c)
    \/ \E r \in Reqs : PostSaveExisting(r)
    \/ \E r \in Reqs : PostSaveNew(r)
    \/ \E r \in Reqs, id \in 1..MaxEntries, hasD \in BOOLEAN, c \in BOOLEAN,
          t \in Instants :
         PutFindOne(r, id, hasD, c, t)
    \/ \E r \in Reqs : PutUpdate(r)
    \/ \E r \in Reqs, id \in 1..MaxEntries : DeleteFindOne(r, id)
    \/ \E r \in Reqs : DeleteDo(r)
    \/ \E r \in Reqs : Respond(r)

Spec == Init /\ [][Next]_vars

-----------------------------------------------------------------------------
(* The server: the habits router *)

NextHabits ==
    \/ \E h \in HabitIds, body \in HabitBodies : PutHabits(h, body)
    \/ \E body \in ReorderBodies : PutHabits("reorder", body)

SpecHabits == Init /\ [][NextHabits]_vars

-----------------------------------------------------------------------------
(* The frontend on its own *)

\* the page is opened with nothing stored or with the items of an earlier
\* session
InitAuth ==
    /\ \E localStorage \in {EmptyStorage} \cup
                           {[token |-> TokenOf(u), user |-> u] : u \in Users} :
          auth = AuthProvider(localStorage)
    /\ entries = {}
    /\ habits = InitHabits
    /\ reqs = [r \in Reqs |-> Idle]
    /\ nextId = 1
    /\ now = 0
    /\ tz = 0
    /\ resp = NoResp
    /\ kept = NoResp

NextAuth ==
    \/ initializeAuth
    \/ \E ok \in BOOLEAN : verifySettled(ok)
    \/ \E c \in Calls : login(c)
    \/ \E c \in Calls : register(c)
    \/ \E c \in Calls, u \in Users : AuthResolved(c, u)
    \/ \E c \in Calls : AuthRejected(c)
    \/ logout
    \/ \E c \in Calls : updateProfile(c)
    \/ \E c \in Calls, u \in Users : ProfileResolved(c, u)
    \/ \E c \in Calls : ProfileRejected(c)
    \/ clearError

SpecAuth == InitAuth /\ [][NextAuth]_vars

-----------------------------------------------------------------------------
(* getCurrentStreak *)

StreakLimit == 100

\* .sort({date: -1}): the documents of S by descending date.  Documents of
\* one habit have different dates (the unique index), so the order is fixed;
\* documents with equal dates are kept in _id order.
SortsBefore(a, b) == a.date > b.date \/ (a.date = b.date /\ a.id < b.id)

SortByDateDesc(S) ==
    [i \in 1..Cardinality(S) |->
        CHOOSE e \in S : Cardinality({o \in S : SortsBefore(o, e)}) = i - 1]

\* .limit(n)
\* a query without .limit()
NoLimit(seq, n) == seq

Limit(seq, n) == SubSeq(seq, 1, Min(Len(seq), n))

\* the for loop over the found entries: an entry on currentDate counts and
\* moves currentDate one day back (setDate(getDate() - 1)); an entry before
\* currentDate ends the loop; an entry after it is passed over
\* the body of the for loop on found[i]; st has the loop's currentDate and
\* streak, and whether the loop has left by break
StreakStep(found, i, st) ==
    LET entryDate == setHours0(found[i].date)
    IN IF entryDate = st.currentDate
       THEN [st EXCEPT !.currentDate = st.currentDate - DayMs,
                       !.streak = st.streak + 1]
       ELSE IF entryDate < st.currentDate
       THEN [st EXCEPT !.broke = TRUE]
       ELSE st

\* the for loop over found[lo..hi], one half after the other; after a break
\* nothing more is done
RECURSIVE StreakWalk(_, _, _, _)
StreakWalk(found, lo, hi, st) ==
    IF st.broke \/ lo > hi THEN st
    ELSE IF lo = hi THEN StreakStep(found, lo, st)
    ELSE StreakWalk(found, (lo + hi) \div 2 + 1, hi,
                    StreakWalk(found, lo, (lo + hi) \div 2, st))

\* a query that lost its habitId condition
StreakQueryAnyHabit(S, h) == {e \in S : e.completed}

\* the query of getCurrentStreak: find({habitId, completed: true})
StreakQuery(S, h) == {e \in S : e.habitId = h /\ e.completed}

\* TrackingEntry.getCurrentStreak(habitId), on the collection S at instant t
getCurrentStreak(S, h, t) ==
    LET found == Limit(SortByDateDesc(StreakQuery(S, h)), StreakLimit)
        today == setHours0(t)
        todayEntry == \E i \in 1..Len(found) : setHours0(found[i].date) = today
        currentDate == IF todayEntry THEN today ELSE today - DayMs
    IN IF Len(found) = 0 THEN 0
       ELSE StreakWalk(found, 1, Len(found),
                       [currentDate |-> currentDate, streak |-> 0,
                        broke |-> FALSE]).streak

\* GET /api/tracking/streak/:habitId
GetStreak(h) ==
    /\ resp' = [kind |-> "streak", habitId |-> h,
                currentStreak |-> getCurrentStreak(entries, h, now)]
    /\ UNCHANGED <<entries, habits, reqs, nextId, now, tz, kept, auth>>

-----------------------------------------------------------------------------
(* The streak over bounded record sets *)

\* days before today that the small record sets reach back
StreakDays == 3

TzOffsets == {-1, 0, 1}

\* the local midnight of day d
Midnight(d) == d * TicksPerDay - tz

\* today's day number, with room for a run longer than StreakLimit before it
StreakToday == StreakLimit + 2

\* records of h1, one per day at local midnight as POST stores them:
\* marks[d] says whether day d has none, a completed or a missed record
SmallDays == (StreakToday - StreakDays + 1)..StreakToday

DailyRecords(marks) ==
    {[id |-> d, habitId |-> "h1", date |-> Midnight(d),
      completed |-> (marks[d] = "done")] : d \in {x \in SmallDays : marks[x] # "none"}}

\* one more record: of h2; of h1 at a time of day that a PUT gave it; of h1
\* on the day after today
ExtraRecords ==
    {[id |-> 1, habitId |-> "h2", date |-> Midnight(d), completed |-> c] :
        d \in SmallDays \cup {StreakToday + 1}, c \in BOOLEAN}
    \cup
    {[id |-> 1, habitId |-> "h1", date |-> Midnight(d) + k, completed |-> c] :
        d \in SmallDays, k \in 1..(TicksPerDay - 1), c \in BOOLEAN}
    \cup
    {[id |-> 1, habitId |-> "h1", date |-> Midnight(StreakToday + 1) + k,
      completed |-> c] : k \in 0..(TicksPerDay - 1), c \in BOOLEAN}

\* n completed records of h1 on the n days that end today
CompletedRun(n) ==
    {[id |-> d, habitId |-> "h1", date |-> Midnight(d), completed |-> TRUE] :
        d \in (StreakToday - n + 1)..StreakToday}

\* completed records of h1 dated after today that the long runs come with
MaxFuture == 2

\* f completed records of h1 on the f days after today, as a POST with a
\* date, or a PUT of the date, stores them
FutureRun(f) ==
    {[id |-> d, habitId |-> "h1", date |-> Midnight(d), completed |-> TRUE] :
        d \in (StreakToday + 1)..(StreakToday + f)}

InitStreak ==
    /\ tz \in TzOffsets
    /\ \E k \in 0..(TicksPerDay - 1) : now = Midnight(StreakToday) + k
    /\ \/ \E marks \in [SmallDays -> {"none", "done", "missed"}] :
            \E extra \in {{}} \cup {{x} : x \in ExtraRecords} :
               entries = DailyRecords(marks) \cup extra
       \/ \E n \in (StreakLimit - 1)..(StreakLimit + 1), f \in 0..MaxFuture :
            entries = CompletedRun(n) \cup FutureRun(f)
    /\ habits = InitHabits
    /\ reqs = [r \in Reqs |-> Idle]
    /\ kept = NoResp
    /\ auth = NoProvider
    /\ nextId = 1
    /\ resp = NoResp

NextStreak == \E h \in HabitIds : GetStreak(h)

SpecStreak == InitStreak /\ [][NextStreak]_vars

\* a calendar day of habit h with a completed record
CompletedOn(h, d) ==
    \E e \in entries : e.habitId = h /\ e.completed /\ LocalDay(e.date) = d

\* the length of the run of completed days of h that ends on day d
CompletedDaysBack(h, d) ==
    CHOOSE n \in 0..Cardinality(entries) :
        /\ \A k \in 0..(n - 1) : CompletedOn(h, d - k)
        /\ ~CompletedOn(h, d - n)

\* C1: getCurrentStreak is the number of consecutive calendar days with a
\* completed record, walking back from today if today has one and from
\* yesterday otherwise, for every record set of the habit
C1_StreakIsCompletedRun ==
    resp.kind = "streak" =>
        LET today == LocalDay(now)
            anchor == IF CompletedOn(resp.habitId, today) THEN today ELSE today - 1
        IN resp.currentStreak = CompletedDaysBack(resp.habitId, anchor)

\* C2: the current streak is at least 0 and at most the number of records
\* of the habit
C2_StreakWithinRecordCount ==
    resp.kind = "streak" =>
        /\ resp.currentStreak >= 0
        /\ resp.currentStreak <= Cardinality(EntriesOf(resp.habitId))

\* C2 witness: a streak of several days that counts every record of the habit
C2_Witness ==
    /\ resp.kind = "streak"
    /\ resp.currentStreak >= 2
    /\ resp.currentStreak = Cardinality(EntriesOf(resp.habitId))
    /\ \E e \in entries : e.habitId # resp.habitId

-----------------------------------------------------------------------------
(* Analytics: GET /api/analytics/overview and /habit/:habitId *)

DefaultDays == 30

WeekLength == 7

\* const { days = 30 } = req.query; parseInt(days)
ParseDays(q) == IF q.given THEN q.value ELSE DefaultDays

\* find({date: {$gte: startDate, $lte: endDate}})
InWindow(S, startDate, endDate) ==
    {e \in S : e.date >= startDate /\ e.date <= endDate}

\* (c / d) * 100
Percent(c, d) == Times(Divide(c, d), 100)

\* a query for the habits that leaves isActive out
EveryHabit == HabitIds

\* Habit.find({userId, isActive: true})
ActiveHabits == {h \in HabitIds : habits[h].isActive}

\* toISOString().split('T')[0]: the UTC calendar day of an instant
UTCDay(t) == t \div TicksPerDay

Sum(f, S) ==
    LET RECURSIVE Acc(_)
        Acc(T) == IF T = {} THEN 0
                  ELSE LET x == CHOOSE y \in T : TRUE IN f[x] + Acc(T \ {x})
    IN Acc(S)

MaxOf(S) == IF S = {} THEN 0 ELSE CHOOSE x \in S : \A y \in S : y <= x

\* the weeklyTrends entry of the day i days before endDate
OverviewDay(found, habitCount, endDate, i) ==
    LET date == setHours0(endDate - i * DayMs)
        nextDate == date + DayMs
        dayEntries == {e \in found : e.date >= date /\ e.date < nextDate
                                     /\ e.completed}
    IN [date |-> UTCDay(date),
        completedHabits |-> Cardinality(dayEntries),
        completionRate |-> IF habitCount > 0
                           THEN Percent(Cardinality(dayEntries), habitCount)
                           ELSE Zero]

\* the body of GET /api/analytics/overview
Overview(q) ==
    LET days == ParseDays(q)
        endDate == now
        startDate == endDate - days * DayMs
        active == ActiveHabits
        found == {e \in InWindow(entries, startDate, endDate) :
                    e.habitId \in active}
        totalPossibleEntries == Cardinality(active) * days
        completedEntries == Cardinality({e \in found : e.completed})
        completionRate == IF totalPossibleEntries > 0
                          THEN Percent(completedEntries, totalPossibleEntries)
                          ELSE Zero
        streaks == [h \in active |-> getCurrentStreak(entries, h, now)]
    IN IF active = {}
       THEN [totalHabits |-> 0, completionRate |-> 0, totalStreaks |-> 0,
             longestStreak |-> 0, weeklyTrends |-> <<>>]
       ELSE [period |-> days,
             totalHabits |-> Cardinality(active),
             completionRate |-> MathRound(completionRate),
             totalStreaks |-> Sum(streaks, active),
             longestStreak |-> MaxOf({streaks[h] : h \in active}),
             weeklyTrends |->
                [k \in 1..WeekLength |->
                    OverviewDay(found, Cardinality(active), endDate,
                                WeekLength - k)]]

GetOverview(q) ==
    /\ resp = NoResp
    /\ resp' = [kind |-> "overview", days |-> q, overview |-> Overview(q)]
    /\ UNCHANGED <<entries, habits, reqs, nextId, now, tz, kept, auth>>

\* .sort({date: 1})
SortByDateAsc(S) ==
    [i \in 1..Cardinality(S) |->
        CHOOSE e \in S : Cardinality({o \in S : SortsBefore(e, o)}) = i - 1]

\* a scan that never sets the running count back
LongestStreakNoReset(found, i, tempStreak, longestStreak) ==
    Cardinality({k \in DOMAIN found : found[k].completed})

\* a scan that answers the running count it ends with
LongestStreakAtEnd(found, i, tempStreak, longestStreak) ==
    Cardinality({k \in DOMAIN found :
                   \A j \in k..Len(found) : found[j].completed})

\* the scan for the longest streak in the period: the running count goes up
\* on a completed entry and back to 0 on any other
RECURSIVE LongestStreakFrom(_, _, _, _)
LongestStreakFrom(found, i, tempStreak, longestStreak) ==
    IF i > Len(found) THEN longestStreak
    ELSE IF found[i].completed
         THEN LongestStreakFrom(found, i + 1, tempStreak + 1,
                                Max(longestStreak, tempStreak + 1))
         ELSE LongestStreakFrom(found, i + 1, 0, longestStreak)

\* Math.floor(a / b) for a count b > 0
FloorDiv(a, b) == a \div b

\* Math.ceil(a / b) for a count b > 0
CeilDiv(a, b) == -((-a) \div b)

\* the weeklyData entry of week number week (from 0)
HabitWeek(found, startDate, endDate, week) ==
    LET weekStart == startDate + week * WeekLength * DayMs
        weekEnd == Min(weekStart + WeekLength * DayMs, endDate)
        weekEntries == {e \in found : e.date >= weekStart /\ e.date < weekEnd}
        weekCompleted == Cardinality({e \in weekEntries : e.completed})
    IN [week |-> week + 1, startDate |-> UTCDay(weekStart),
        endDate |-> UTCDay(weekEnd),
        completedDays |-> weekCompleted,
        totalDays |-> Cardinality(weekEntries),
        completionRate |-> IF Cardinality(weekEntries) > 0
                           THEN Percent(weekCompleted, Cardinality(weekEntries))
                           ELSE Zero]

\* null, and a Number, as a value of the response
Null == [null |-> TRUE, value |-> Zero]

Number(x) == [null |-> FALSE, value |-> x]

\* entries.filter(e => e.mood && e.completed)
MoodEntries(found) == {e \in found : e.mood # None /\ e.completed}

DifficultyEntries(found) == {e \in found : e.difficulty # None /\ e.completed}

\* the mean of the field over the records, or null without records
AverageOf(field, S) ==
    IF Cardinality(S) > 0
    THEN Number(Divide(Sum([e \in S |-> e[field]], S), Cardinality(S)))
    ELSE Null

\* averageMood ? Math.round(averageMood * 10) / 10 : null
RoundToTenth(average) ==
    IF average.null \/ IsZero(average.value) THEN Null
    ELSE Number(Divide(MathRound(Times(average.value, 10)), 10))

\* a null where the response has an object or a date
NoValue == [null |-> TRUE]

Milestones == <<7, 14, 21, 30, 60, 90, 180, 365>>

\* the first element of Milestones among those at the places hits
FirstOf(hits) ==
    IF hits = {} THEN None
    ELSE Milestones[CHOOSE k \in hits : \A j \in hits : k <= j]

\* the first milestone at or above the streak
FindMilestoneFrom(currentStreak) ==
    FirstOf({k \in DOMAIN Milestones : Milestones[k] >= currentStreak})

\* milestones.find(m => m > currentStreak)
FindMilestone(currentStreak) ==
    FirstOf({k \in DOMAIN Milestones : Milestones[k] > currentStreak})

getNextMilestone(currentStreak) ==
    LET nextMilestone == FindMilestone(currentStreak)
    IN IF nextMilestone # None
       THEN [null |-> FALSE, days |-> nextMilestone,
             remaining |-> nextMilestone - currentStreak]
       ELSE NoValue

DefaultStreakTarget == 7

\* found is the window's records in ascending date order
generatePredictions(found, habit, currentStreak) ==
    LET completedEntries == {k \in DOMAIN found : found[k].completed}
        completionRate == Divide(Cardinality(completedEntries), Len(found))
        streakTarget == IF habit.streakTarget # 0 THEN habit.streakTarget
                        ELSE DefaultStreakTarget
        daysToTarget == Max(0, streakTarget - currentStreak)
    IN IF completedEntries = {}
       THEN [streakTarget |-> NoValue, nextMilestone |-> NoValue,
             probabilityOfSuccess |-> 0]
       ELSE [streakTarget |->
                [null |-> FALSE, target |-> streakTarget,
                 current |-> currentStreak, daysRemaining |-> daysToTarget,
                 estimatedDate |->
                    IF daysToTarget > 0
                    THEN [null |-> FALSE,
                          day |-> UTCDay(now + daysToTarget * DayMs)]
                    ELSE NoValue],
             nextMilestone |-> getNextMilestone(currentStreak),
             probabilityOfSuccess |-> MathRound(Times(completionRate, 100))]

ExcellentRate == 80

GoodRate == 60

PoorRate == 40

StreakPraise == 7

RecentCount == 7

\* the 0.8 of recentEntries.length * 0.8
ConsistencyShare == Divide(4, 5)

\* entries.slice(-7), or another number of them
LastEntries(found, n) == SubSeq(found, Max(1, Len(found) - n + 1), Len(found))

\* the whole list in place of its last seven
AllEntries(found) == found

\* slice(-7)
RecentEntries(found) == LastEntries(found, RecentCount)

Insight(type, message, shown, actionable) ==
    [type |-> type, message |-> message, shown |-> shown,
     actionable |-> actionable]

\* the completion rate insight; completionRate is the rate before rounding
RateInsight(completionRate) ==
    IF Geq(completionRate, ExcellentRate)
    THEN <<Insight("success", "Excellent", <<MathRound(completionRate)>>, FALSE)>>
    ELSE IF Geq(completionRate, GoodRate)
    THEN <<Insight("warning", "Good progress", <<MathRound(completionRate)>>, TRUE)>>
    ELSE IF Lt(completionRate, PoorRate)
    THEN <<Insight("danger", "Your completion rate", <<MathRound(completionRate)>>, TRUE)>>
    ELSE <<>>

StreakInsight(currentStreak) ==
    IF currentStreak >= StreakPraise
    THEN <<Insight("success", "Amazing", <<currentStreak>>, FALSE)>>
    ELSE IF currentStreak = 0
    THEN <<Insight("info", "Start building your streak", <<>>, TRUE)>>
    ELSE <<>>

PatternInsight(found) ==
    LET recentEntries == RecentEntries(found)
        recentCompletions ==
            Cardinality({k \in DOMAIN recentEntries : recentEntries[k].completed})
        share == IF Len(recentEntries) = 0 THEN Zero
                 ELSE Times(ConsistencyShare, Len(recentEntries))
    IN IF Floor(share) < recentCompletions
       THEN <<Insight("success", "Consistent",
                      <<recentCompletions, Len(recentEntries)>>, FALSE)>>
       ELSE <<>>

\* the same insights, the streak insight first
generateInsightsStreakFirst(found, completionRate, currentStreak) ==
    StreakInsight(currentStreak) \o RateInsight(completionRate)
        \o PatternInsight(found)

generateInsights(found, completionRate, currentStreak) ==
    RateInsight(completionRate) \o StreakInsight(currentStreak)
        \o PatternInsight(found)

\* the period, summary, weeklyData, predictions and insights of
\* GET /api/analytics/habit/:habitId
HabitAnalytics(h, q) ==
    LET days == ParseDays(q)
        endDate == now
        startDate == endDate - days * DayMs
        found == InWindow(EntriesOf(h), startDate, endDate)
        totalDays == days
        trackedDays == Cardinality(found)
        completedDays == Cardinality({e \in found : e.completed})
        completionRate == IF trackedDays > 0
                          THEN Percent(completedDays, trackedDays)
                          ELSE Zero
        currentStreak == getCurrentStreak(entries, h, now)
        ordered == SortByDateAsc(found)
    IN [period |-> days,
        summary |->
          [totalDays |-> totalDays, trackedDays |-> trackedDays,
           completedDays |-> completedDays,
           completionRate |-> MathRound(completionRate),
           currentStreak |-> currentStreak,
           longestStreak |-> LongestStreakFrom(ordered, 1, 0, 0),
           averageMood |-> RoundToTenth(AverageOf("mood", MoodEntries(found))),
           averageDifficulty |->
              RoundToTenth(AverageOf("difficulty", DifficultyEntries(found)))],
        weeklyData |->
          [k \in 1..Max(0, CeilDiv(days, WeekLength)) |->
              HabitWeek(found, startDate, endDate, k - 1)],
        predictions |->
           generatePredictions(ordered, habits[h], currentStreak),
        insights |->
           generateInsights(ordered, completionRate, currentStreak)]

\* the static getHabitAnalytics(habitId, days): one $group over the records
\* of the window; $avg takes the records whose field is a number and is
\* null without any; without records there is no group and no average
getHabitAnalytics(h, days) ==
    LET found == InWindow(EntriesOf(h), now - days * DayMs, now)
        completedDays == Cardinality({e \in found : e.completed})
    IN [totalDays |-> Cardinality(found),
        completedDays |-> completedDays,
        averageMood |-> AverageOf("mood", {e \in found : e.mood # None}),
        averageDifficulty |->
           AverageOf("difficulty", {e \in found : e.difficulty # None}),
        currentStreak |-> getCurrentStreak(entries, h, now),
        completionRate |-> IF found # {}
                           THEN Divide(completedDays, Cardinality(found))
                           ELSE Zero]

DetailDays == 30

\* GET /api/habits/:id
GetHabit(h) ==
    /\ resp = NoResp
    /\ resp' = [kind |-> "habitDetail", habitId |-> h,
                analytics |-> getHabitAnalytics(h, DetailDays)]
    /\ UNCHANGED <<entries, habits, reqs, nextId, now, tz, kept, auth>>

GetHabitAnalytics(h, q) ==
    /\ resp = NoResp
    /\ resp' = [kind |-> "habit", habitId |-> h, days |-> q,
                analytics |-> HabitAnalytics(h, q)]
    /\ UNCHANGED <<entries, habits, reqs, nextId, now, tz, kept, auth>>

-----------------------------------------------------------------------------
(* Analytics over bounded record sets *)

AnalyticsToday == 400

\* the days the small record sets cover, today the last
RecentDays == 2

\* the largest numbers of completed and of missed records in a run of
\* records of h1, one per day, that ends today
MaxCompleted == 23
MaxMissed == 17

\* the days parameter of a request: absent, or a number
DaysQueries ==
    {[given |-> FALSE, value |-> 0]}
    \cup {[given |-> TRUE, value |-> v] : v \in {-1, 0, 1, 2 * WeekLength, MaxCompleted + MaxMissed}}

AnalyticsDays == (AnalyticsToday - RecentDays + 1)..AnalyticsToday

\* the client takes the response; it sends its next request after that
Receive ==
    /\ resp # NoResp
    /\ resp' = NoResp
    /\ UNCHANGED <<entries, habits, reqs, nextId, now, tz, kept, auth>>

\* the records of h1 that POST stores, at most one a day at local midnight
HabitDayRecords(marks) ==
    {[id |-> 10 * d, habitId |-> "h1", date |-> Midnight(d),
      completed |-> (marks[d] = "done"), mood |-> None, difficulty |-> None] :
        d \in {x \in AnalyticsDays : marks[x] # "none"}}

\* a record of h2 that POST stores
OtherHabitRecords ==
    {[id |-> 2, habitId |-> "h2", date |-> Midnight(d), completed |-> c,
      mood |-> None, difficulty |-> None] :
        d \in AnalyticsDays, c \in BOOLEAN}

OneOrNone(S) == {{}} \cup {{x} : x \in S}

\* a record of h1 at a time of day that a PUT gave it
MovedRecords ==
    {[id |-> 1, habitId |-> "h1", date |-> Midnight(d) + k, completed |-> c,
      mood |-> None, difficulty |-> None] :
        d \in AnalyticsDays \cup {AnalyticsToday - RecentDays - 1},
        k \in 1..(TicksPerDay - 1), c \in BOOLEAN}

\* records of h1, one per day on the days that end today: the c older ones
\* completed, the m newer ones not
Tally(c, m) ==
    {[id |-> d, habitId |-> "h1", date |-> Midnight(d),
      completed |-> (d <= AnalyticsToday - m),
      mood |-> None, difficulty |-> None] :
        d \in (AnalyticsToday - c - m + 1)..AnalyticsToday}

ActiveSets == {{}, {"h1"}, {"h1", "h2"}}

InitAnalytics ==
    /\ tz = 0
    /\ \E k \in 0..(TicksPerDay - 1) : now = Midnight(AnalyticsToday) + k
    /\ \/ \E marks \in [AnalyticsDays -> {"none", "done", "missed"}] :
            \E extra \in OneOrNone(OtherHabitRecords \cup MovedRecords) :
               entries = HabitDayRecords(marks) \cup extra
       \/ \E c \in 0..MaxCompleted, m \in 0..MaxMissed : entries = Tally(c, m)
    /\ \E A \in ActiveSets :
          habits = [h \in HabitIds |-> [InitHabits[h] EXCEPT !.isActive = (h \in A)]]
    /\ reqs = [r \in Reqs |-> Idle]
    /\ kept = NoResp
    /\ auth = NoProvider
    /\ nextId = 1
    /\ resp = NoResp

MinRating == 1

MaxRating == 5

\* a mood or a difficulty of a record: null, or a number of the scale
Ratings == {None, MinRating, MaxRating}

\* the records of h1 that POST can store on day d
RatedRecords(d) ==
    {[id |-> 10 * d, habitId |-> "h1", date |-> Midnight(d), completed |-> c,
      mood |-> m, difficulty |-> f] :
        c \in BOOLEAN, m \in Ratings, f \in {None, MaxRating}}

\* a completed record of h1 with a mood, today at a time of day
RatedMovedRecords ==
    {[id |-> 1, habitId |-> "h1", date |-> Midnight(AnalyticsToday) + k,
      completed |-> TRUE, mood |-> MinRating, difficulty |-> None] :
        k \in 1..(TicksPerDay - 1)}

\* a completed record of h1 whose mood or difficulty is a number beyond the
\* scale, on the day before the recent ones: the validators of POST and PUT
\* and the schema's min and max refuse such a number, so it is in the store
\* by a write that passed them by (an update with an operator Mongoose does
\* not validate, or a write that did not go through the model)
UnscaledRecords ==
    {[id |-> 1, habitId |-> "h1", date |-> Midnight(AnalyticsToday - RecentDays),
      completed |-> TRUE, mood |-> r[1], difficulty |-> r[2]] :
        r \in {<<MaxRating + 1, None>>, <<None, MaxRating + 1>>}}

InitMood ==
    /\ tz \in TzOffsets
    /\ \E k \in 0..(TicksPerDay - 1) : now = Midnight(AnalyticsToday) + k
    /\ \E daily \in [AnalyticsDays -> UNION {OneOrNone(RatedRecords(d)) :
                                                d \in AnalyticsDays}] :
          /\ \A d \in AnalyticsDays : daily[d] \in OneOrNone(RatedRecords(d))
          /\ \E extra \in OneOrNone(RatedMovedRecords \cup UnscaledRecords) :
                entries = UNION {daily[d] : d \in AnalyticsDays} \cup extra
    /\ habits = InitHabits
    /\ reqs = [r \in Reqs |-> Idle]
    /\ kept = NoResp
    /\ auth = NoProvider
    /\ nextId = 1
    /\ resp = NoResp

NextMood ==
    \/ \E h \in HabitIds : GetHabit(h)
    \/ \E h \in HabitIds, q \in DaysQueries : GetHabitAnalytics(h, q)
    \/ Receive

SpecMood == InitMood /\ [][NextMood]_vars

NextAnalytics ==
    \/ \E q \in DaysQueries : GetOverview(q)
    \/ \E h \in HabitIds, q \in DaysQueries : GetHabitAnalytics(h, q)
    \/ Receive

SpecAnalytics == InitAnalytics /\ [][NextAnalytics]_vars

-----------------------------------------------------------------------------
(* Analytics: GET /api/analytics/trends *)

WeekPeriod == 7
MonthPeriod == 30
QuarterPeriod == 90
YearPeriod == 365

Absent == [given |-> FALSE, value |-> ""]

Given(v) == [given |-> TRUE, value |-> v]

\* const { period = 'month', groupBy = 'week' } = req.query
OrDefault(q, default) == IF q.given THEN q.value ELSE default

\* switch (period)
PeriodDays(period) ==
    CASE period = "week" -> WeekPeriod
      [] period = "month" -> MonthPeriod
      [] period = "quarter" -> QuarterPeriod
      [] period = "year" -> YearPeriod
      [] OTHER -> MonthPeriod

GroupSize(groupBy) ==
    IF groupBy = "day" THEN 1
    ELSE IF groupBy = "week" THEN WeekLength ELSE MonthPeriod

Categories(active) == {habits[h].category : h \in active}

\* the trends entry of the bucket that starts i days after startDate
TrendBucket(found, active, groupBy, startDate, endDate, i) ==
    LET periodStart == startDate + i * DayMs
        periodEnd == Min(periodStart + GroupSize(groupBy) * DayMs, endDate)
        periodEntries == {e \in found : e.date >= periodStart
                                        /\ e.date < periodEnd}
        completedEntries == {e \in periodEntries : e.completed}
    IN [period |-> groupBy,
        startDate |-> UTCDay(periodStart), endDate |-> UTCDay(periodEnd),
        totalEntries |-> Cardinality(periodEntries),
        completedEntries |-> Cardinality(completedEntries),
        completionRate |-> IF Cardinality(periodEntries) > 0
                           THEN Percent(Cardinality(completedEntries),
                                        Cardinality(periodEntries))
                           ELSE Zero,
        categoryBreakdown |->
           [c \in Categories(active) |->
              [total |-> Cardinality({h \in active : habits[h].category = c}),
               completed |->
                  Cardinality({e \in completedEntries :
                                 /\ e.habitId \in active
                                 /\ habits[e.habitId].category = c})]]]

\* the body of GET /api/analytics/trends
Trends(periodQuery, groupByQuery) ==
    LET period == OrDefault(periodQuery, "month")
        groupBy == OrDefault(groupByQuery, "week")
        days == PeriodDays(period)
        endDate == now
        startDate == endDate - days * DayMs
        found == InWindow(entries, startDate, endDate)
    IN [trends |-> [k \in 1..CeilDiv(days, GroupSize(groupBy)) |->
                       TrendBucket(found, ActiveHabits, groupBy, startDate,
                                   endDate, (k - 1) * GroupSize(groupBy))],
        period |-> period,
        groupBy |-> groupBy,
        habits |-> ActiveHabits]

GetTrends(periodQuery, groupByQuery) ==
    /\ resp = NoResp
    /\ resp' = [kind |-> "trends", body |-> Trends(periodQuery, groupByQuery)]
    /\ UNCHANGED <<entries, habits, reqs, nextId, now, tz, kept, auth>>

PeriodQueries ==
    {Absent} \cup {Given(p) : p \in {"week", "month", "quarter", "year", "decade"}}

GroupByQueries == {Absent} \cup {Given(g) : g \in {"day", "week", "month"}}

\* a record of h1 dated at a time of day, as a PUT can leave it, on one of
\* the days before the recent ones
OlderRecords ==
    {[id |-> 1, habitId |-> "h1", date |-> Midnight(d) + k, completed |-> TRUE,
      mood |-> None, difficulty |-> None] :
        d \in {AnalyticsToday - WeekPeriod, AnalyticsToday - MonthPeriod,
               AnalyticsToday - YearPeriod},
        k \in 0..(TicksPerDay - 1)}

InitTrends ==
    /\ tz = 0
    /\ \E k \in 0..(TicksPerDay - 1) : now = Midnight(AnalyticsToday) + k
    /\ \/ \E marks \in [AnalyticsDays -> {"none", "done", "missed"}] :
            \E other \in OneOrNone(OtherHabitRecords) :
               entries = HabitDayRecords(marks) \cup other
       \/ \E x \in OlderRecords : entries = {x}
    /\ \E A \in ActiveSets :
          habits = [h \in HabitIds |-> [InitHabits[h] EXCEPT !.isActive = (h \in A)]]
    /\ reqs = [r \in Reqs |-> Idle]
    /\ kept = NoResp
    /\ auth = NoProvider
    /\ nextId = 1
    /\ resp = NoResp

NextTrends ==
    \/ \E p \in PeriodQueries, g \in GroupByQueries : GetTrends(p, g)
    \/ \E h \in HabitIds, q \in DaysQueries : GetHabitAnalytics(h, q)
    \/ Receive

SpecTrends == InitTrends /\ [][NextTrends]_vars

-----------------------------------------------------------------------------
(* Analytics: GET /api/analytics/heatmap.  Day 0 is January 1st of          *)
(* FirstYear.                                                               *)

FirstYear == 2023

YearCount == 2

Years == FirstYear..(FirstYear + YearCount - 1)

IsLeap(y) == (y % 4 = 0 /\ y % 100 # 0) \/ y % 400 = 0

DaysInYear(y) == IF IsLeap(y) THEN 366 ELSE 365

\* the day number of January 1st of year y
RECURSIVE YearStart(_)
YearStart(y) ==
    IF y <= FirstYear THEN 0 ELSE YearStart(y - 1) + DaysInYear(y - 1)

\* new Date().getFullYear()
getFullYear(t) ==
    CHOOSE y \in (FirstYear - 1)..(FirstYear + YearCount) :
        \/ y = FirstYear - 1 /\ LocalDay(t) < 0
        \/ y >= FirstYear /\ YearStart(y) <= LocalDay(t)
                          /\ LocalDay(t) < YearStart(y + 1)

\* toISOString().split('T')[0] of d, which the loop moves by local days
dateStr(d) == UTCDay(d)

\* the documents in the order find gives them
NaturalOrder(S) ==
    [i \in 1..Cardinality(S) |->
        CHOOSE e \in S : Cardinality({o \in S : o.id < e.id}) = i - 1]

\* the cell of a key after the entries are folded in
HeatmapCell(key, found, totalHabits) ==
    LET onKey == {e \in found : dateStr(e.date) = key}
        completedHabits == Cardinality({e \in onKey : e.completed})
        pushed == NaturalOrder(onKey)
    IN [date |-> key,
        totalHabits |-> totalHabits,
        completedHabits |-> completedHabits,
        completionRate |-> IF onKey = {} THEN Zero
                           ELSE Percent(completedHabits, totalHabits),
        habits |-> [i \in DOMAIN pushed |->
                      [habitId |-> pushed[i].habitId,
                       completed |-> pushed[i].completed]]]

\* the body of GET /api/analytics/heatmap
Heatmap(yearQuery) ==
    LET year == OrDefault(yearQuery, getFullYear(now))
        startDate == Midnight(YearStart(year))
        endDate == Midnight(YearStart(year + 1) - 1)
        found == InWindow(entries, startDate, endDate)
        keys == {dateStr(Midnight(d)) : d \in YearStart(year)..(YearStart(year + 1) - 1)}
    IN IF ActiveHabits = {}
       THEN [heatmapData |-> <<>>, habits |-> {}, year |-> year]
       ELSE [heatmapData |->
                [key \in keys |->
                    HeatmapCell(key, found, Cardinality(ActiveHabits))],
             habits |-> ActiveHabits,
             year |-> year]

GetHeatmap(yearQuery) ==
    /\ resp = NoResp
    /\ resp' = [kind |-> "heatmap", body |-> Heatmap(yearQuery)]
    /\ UNCHANGED <<entries, habits, reqs, nextId, now, tz, kept, auth>>

YearQueries == {Absent} \cup {Given(y) : y \in Years}

\* the days about the turn of the first year
TurnDays == (YearStart(FirstYear + 1) - 1)..YearStart(FirstYear + 1)

\* records that POST stores on the days about the turn of the year
TurnRecords(marks) ==
    {[id |-> 10 * d + (IF h = "h1" THEN 1 ELSE 2), habitId |-> h,
      date |-> Midnight(d), completed |-> (marks[<<h, d>>] = "done")] :
        <<h, d>> \in {x \in HabitIds \X TurnDays : marks[x] # "none"}}

InitHeatmap ==
    /\ tz \in TzOffsets
    /\ \E k \in 0..(TicksPerDay - 1) :
          now = (YearStart(FirstYear + 1) - 1) * TicksPerDay + k
    /\ \E marks \in [HabitIds \X TurnDays -> {"none", "done", "missed"}] :
          entries = TurnRecords(marks)
    /\ \E A \in ActiveSets :
          habits = [h \in HabitIds |-> [InitHabits[h] EXCEPT !.isActive = (h \in A)]]
    /\ reqs = [r \in Reqs |-> Idle]
    /\ kept = NoResp
    /\ auth = NoProvider
    /\ nextId = 1
    /\ resp = NoResp

NextHeatmap ==
    \/ \E y \in YearQueries : GetHeatmap(y)
    \/ Receive

SpecHeatmap == InitHeatmap /\ [][NextHeatmap]_vars

-----------------------------------------------------------------------------
(* Soft deletion: DELETE /api/habits/:id beside the habit list, the        *)
(* tracking POST, the habit update and the analytics that count habits.    *)

\* DELETE /api/habits/:id: Habit.findOne({_id, userId}) finds the habit,
\* active or not; Habit.findByIdAndUpdate(id, {isActive: false})
DeleteHabit(segment) ==
    /\ habits' = [habits EXCEPT ![segment].isActive = FALSE]
    /\ resp' = [kind |-> "habitDeleted", habitId |-> segment, status |-> 200]
    /\ UNCHANGED <<entries, reqs, nextId, now, tz, kept, auth>>

\* .sort({order: 1, createdAt: 1}); h1 was created before h2
SortByOrder(S) ==
    [i \in 1..Cardinality(S) |->
        CHOOSE h \in S :
            Cardinality({o \in S : \/ habits[o].order < habits[h].order
                                   \/ /\ habits[o].order = habits[h].order
                                      /\ o = "h1" /\ h = "h2"}) = i - 1]

\* GET /api/habits, with include_tracking=true (Habit.getHabitsWithTracking,
\* whose $match has isActive: true) or without (Habit.find({userId,
\* isActive: true})): the ids of the habits answered, and total
ListHabits(includeTracking) ==
    /\ resp = NoResp
    /\ LET found == SortByOrder(ActiveHabits)
       IN resp' = [kind |-> "list", includeTracking |-> includeTracking,
                   habits |-> found, total |-> Len(found)]
    /\ UNCHANGED <<entries, habits, reqs, nextId, now, tz, kept, auth>>

\* the bodies of PUT /api/habits/:id that set isActive
ActiveBodies == {b \in HabitBodies : b.hasActive /\ ~b.hasOrder /\ b.order = 0}

InitSoftDelete ==
    /\ entries = {}
    /\ habits = [h \in HabitIds |-> [InitHabits[h] EXCEPT !.isActive = TRUE]]
    /\ reqs = [r \in Reqs |-> Idle]
    /\ kept = NoResp
    /\ auth = NoProvider
    /\ nextId = 1
    /\ tz = 0
    /\ now = Midnight(AnalyticsToday)
    /\ resp = NoResp

NextSoftDelete ==
    \/ \E h \in HabitIds : DeleteHabit(h)
    \/ \E h \in HabitIds, body \in ActiveBodies : PutHabits(h, body)
    \/ \E h \in HabitIds, c \in BOOLEAN : PostFindOne(1, h, now, c)
    \/ PostSaveExisting(1)
    \/ PostSaveNew(1)
    \/ Respond(1)
    \/ \E t \in BOOLEAN : ListHabits(t)
    \/ GetOverview([given |-> FALSE, value |-> 0])
    \/ GetTrends(Absent, Absent)
    \/ GetHeatmap(Absent)
    \/ Receive

SpecSoftDelete == InitSoftDelete /\ [][NextSoftDelete]_vars

-----------------------------------------------------------------------------
(* Two users.  Every document carries its userId, the auth middleware puts *)
(* the user of the token in req.user, and each handler is served whole.    *)
(* u1 owns h1 and sends the writes; u2 owns h2 and reads.                  *)

\* the habit documents with their userId
UserHabits ==
    [h \in HabitIds |->
       [userId |-> IF h = "h1" THEN "u1" ELSE "u2", isActive |-> TRUE,
        order |-> 0, streakTarget |-> InitHabits[h].streakTarget,
        category |-> InitHabits[h].category]]

\* the record u2 has from the start
OtherUsersRecord ==
    [id |-> MaxEntries + 1, userId |-> "u2", habitId |-> "h2",
     date |-> Midnight(AnalyticsToday), completed |-> TRUE]

\* the unique index {habitId, userId, date}
DuplicateUserKey(S, doc) ==
    \E e \in S : /\ e.id # doc.id /\ e.habitId = doc.habitId
                 /\ e.userId = doc.userId /\ e.date = doc.date

Reply(u, status) == [kind |-> "reply", user |-> u, status |-> status]

\* a request body with one field, a boolean or an id; the update takes the
\* fields of the schema
SetField(doc, body) ==
    CASE body.field = "completed" -> [doc EXCEPT !.completed = body.flag]
      [] body.field = "isActive" -> [doc EXCEPT !.isActive = body.flag]
      [] body.field = "userId" -> [doc EXCEPT !.userId = body.ref]
      [] body.field = "habitId" -> [doc EXCEPT !.habitId = body.ref]
      [] OTHER -> doc

TrackingBodies ==
    {[field |-> "completed", flag |-> c, ref |-> ""] : c \in BOOLEAN}
    \cup {[field |-> "userId", flag |-> FALSE, ref |-> u] : u \in Users}
    \cup {[field |-> "habitId", flag |-> FALSE, ref |-> h] : h \in HabitIds}

UserHabitBodies ==
    {[field |-> "isActive", flag |-> c, ref |-> ""] : c \in BOOLEAN}
    \cup {[field |-> "userId", flag |-> FALSE, ref |-> u] : u \in Users}

\* POST /api/tracking as user u: Habit.findOne({_id, userId, isActive: true}),
\* TrackingEntry.findOne({habitId, userId, date}), then save
PostTrackingAs(u, h, t, c) ==
    LET entryDate == setHours0(t)
        found == {e \in entries : /\ e.habitId = h /\ e.userId = u
                                  /\ e.date = entryDate}
    IN /\ IF ~(habits[h].userId = u /\ habits[h].isActive)
          THEN /\ resp' = Reply(u, 404)
               /\ UNCHANGED <<entries, nextId>>
          ELSE IF found # {}
          THEN /\ entries' = {IF e \in found THEN [e EXCEPT !.completed = c]
                              ELSE e : e \in entries}
               /\ resp' = Reply(u, 200)
               /\ UNCHANGED nextId
          ELSE /\ nextId <= MaxEntries
               /\ entries' = entries \cup
                     {[id |-> nextId, userId |-> u, habitId |-> h,
                       date |-> entryDate, completed |-> c]}
               /\ nextId' = nextId + 1
               /\ resp' = Reply(u, 201)
       /\ UNCHANGED <<habits, reqs, now, tz, kept, auth>>

\* PUT /api/tracking/:id as user u: TrackingEntry.findOne({_id, userId}),
\* then TrackingEntry.findByIdAndUpdate(id, req.body)
PutTrackingAs(u, id, body) ==
    LET found == {e \in entries : e.id = id /\ e.userId = u}
    IN /\ IF found = {}
          THEN /\ resp' = Reply(u, 404)
               /\ UNCHANGED entries
          ELSE LET old == CHOOSE e \in found : TRUE
                   doc == SetField(old, body)
               IN IF DuplicateUserKey(entries, doc)
                  THEN /\ resp' = Reply(u, 500)
                       /\ UNCHANGED entries
                  ELSE /\ entries' = (entries \ {old}) \cup {doc}
                       /\ resp' = Reply(u, 200)
       /\ UNCHANGED <<habits, reqs, nextId, now, tz, kept, auth>>

\* DELETE /api/tracking/:id as user u
DeleteTrackingAs(u, id) ==
    LET found == {e \in entries : e.id = id /\ e.userId = u}
    IN /\ entries' = entries \ found
       /\ resp' = Reply(u, IF found = {} THEN 404 ELSE 200)
       /\ UNCHANGED <<habits, reqs, nextId, now, tz, kept, auth>>

\* PUT /api/habits/:id as user u: Habit.findOne({_id, userId}), then
\* Habit.findByIdAndUpdate(id, req.body)
PutHabitAs(u, h, body) ==
    /\ IF habits[h].userId # u
       THEN /\ resp' = Reply(u, 404)
            /\ UNCHANGED habits
       ELSE /\ habits' = [habits EXCEPT ![h] = SetField(@, body)]
            /\ resp' = Reply(u, 200)
    /\ UNCHANGED <<entries, reqs, nextId, now, tz, kept, auth>>

\* DELETE /api/habits/:id as user u
DeleteHabitAs(u, h) ==
    /\ IF habits[h].userId # u
       THEN /\ resp' = Reply(u, 404)
            /\ UNCHANGED habits
       ELSE /\ habits' = [habits EXCEPT ![h].isActive = FALSE]
            /\ resp' = Reply(u, 200)
    /\ UNCHANGED <<entries, reqs, nextId, now, tz, kept, auth>>

\* GET /api/habits as user u: Habit.find({userId, isActive: true})
HabitsFor(u) == {h \in HabitIds : habits[h].userId = u /\ habits[h].isActive}

\* GET /api/tracking as user u: TrackingEntry.find({userId})
TrackingFor(u) == {e \in entries : e.userId = u}

\* GET /api/analytics/heatmap as user u, on the days that have records: the
\* habits are those of HabitsFor, the records those of TrackingFor
HeatmapFor(u) ==
    [key \in {dateStr(e.date) : e \in TrackingFor(u)} |->
        [totalHabits |-> Cardinality(HabitsFor(u)),
         completedHabits |->
            Cardinality({e \in TrackingFor(u) :
                           dateStr(e.date) = key /\ e.completed}),
         habits |-> {e.habitId : e \in {x \in TrackingFor(u) :
                                          dateStr(x.date) = key}}]]

\* what user u is answered
ResponsesFor(u) ==
    [habits |-> HabitsFor(u), entries |-> TrackingFor(u),
     heatmap |-> HeatmapFor(u)]

GetAs(u) ==
    /\ resp' = [kind |-> "responses", user |-> u, body |-> ResponsesFor(u)]
    /\ UNCHANGED <<entries, habits, reqs, nextId, now, tz, kept, auth>>

InitIsolation ==
    /\ tz = 0
    /\ now = Midnight(AnalyticsToday)
    /\ entries = {OtherUsersRecord}
    /\ habits = UserHabits
    /\ reqs = [r \in Reqs |-> Idle]
    /\ kept = NoResp
    /\ auth = NoProvider
    /\ nextId = 1
    /\ resp = NoResp

NextIsolation ==
    \/ \E h \in HabitIds, c \in BOOLEAN : PostTrackingAs("u1", h, now, c)
    \/ \E id \in 1..(MaxEntries + 1), body \in TrackingBodies :
          PutTrackingAs("u1", id, body)
    \/ \E id \in 1..(MaxEntries + 1) : DeleteTrackingAs("u1", id)
    \/ \E h \in HabitIds, body \in UserHabitBodies : PutHabitAs("u1", h, body)
    \/ \E h \in HabitIds : DeleteHabitAs("u1", h)
    \/ GetAs("u2")

SpecIsolation == InitIsolation /\ [][NextIsolation]_vars

-----------------------------------------------------------------------------
(* Creating habits: POST /api/habits of one user.  The handler awaits      *)
(* Habit.findOne and then habit.save(), and requests interleave between    *)
(* the two.  The collection starts empty and grows.                        *)

\* the _id values that save() gives, in the order of the saves
ObjectIds == <<"h1", "h2", "h3">>

\* the category of the request body; the schema's default is 'other'
CreateBodies == {[category |-> c] : c \in {"health", "other"}}

\* the highest order among the user's habits, active or not; -1 stands for
\* lastHabit being null
LastOrder ==
    IF DOMAIN habits = {} THEN -1
    ELSE CHOOSE o \in {habits[h].order : h \in DOMAIN habits} :
            \A h \in DOMAIN habits : habits[h].order <= o

\* POST /api/habits up to its second await: validation passed;
\* Habit.findOne({userId}).sort({order: -1}); order is lastHabit.order + 1,
\* or 0 without a habit
CreateFindLast(r, body) ==
    /\ reqs[r].pc = "idle"
    /\ reqs' = [reqs EXCEPT ![r] =
          [kind |-> "create", pc |-> "save", category |-> body.category,
           order |-> IF LastOrder = -1 THEN 0 ELSE LastOrder + 1]]
    /\ UNCHANGED <<entries, habits, nextId, now, tz, resp, kept, auth>>

\* new Habit(habitData).save(), answered 201
CreateSave(r) ==
    /\ reqs[r].kind = "create" /\ reqs[r].pc = "save"
    /\ Cardinality(DOMAIN habits) < Len(ObjectIds)
    /\ LET id == ObjectIds[Cardinality(DOMAIN habits) + 1]
           doc == [isActive |-> TRUE, order |-> reqs[r].order,
                   streakTarget |-> 7, category |-> reqs[r].category]
       IN habits' = [h \in DOMAIN habits \cup {id} |->
                       IF h = id THEN doc ELSE habits[h]]
    /\ reqs' = [reqs EXCEPT ![r] = Done("create", 201)]
    /\ UNCHANGED <<entries, nextId, now, tz, resp, kept, auth>>

InitCreate ==
    /\ entries = {}
    /\ habits = [h \in {} |-> 0]
    /\ reqs = [r \in Reqs |-> Idle]
    /\ kept = NoResp
    /\ auth = NoProvider
    /\ nextId = 1
    /\ tz = 0
    /\ now = Midnight(AnalyticsToday)
    /\ resp = NoResp

NextCreate ==
    \/ \E r \in Reqs, body \in CreateBodies : CreateFindLast(r, body)
    \/ \E r \in Reqs : CreateSave(r)
    \/ \E r \in Reqs : Respond(r)
    \/ \E h \in DOMAIN habits : DeleteHabit(h)
    \/ Receive

SpecCreate == InitCreate /\ [][NextCreate]_vars

-----------------------------------------------------------------------------
(* The same request sent again.  The records stay as they are; the clock   *)
(* goes on between the requests; the client keeps the first response, with *)
(* the instant it was computed at, beside the second.                      *)

\* the days after today that the clock reaches
ClockDays == 1

\* time passes between one request and the next
Tick ==
    /\ resp = NoResp
    /\ now < Midnight(AnalyticsToday + ClockDays) + TicksPerDay - 1
    /\ now' = now + 1
    /\ UNCHANGED <<entries, habits, reqs, nextId, tz, resp, kept, auth>>

\* the client puts the response aside
Keep ==
    /\ resp # NoResp /\ kept = NoResp
    /\ kept' = [resp |-> resp, now |-> now]
    /\ resp' = NoResp
    /\ UNCHANGED <<entries, habits, reqs, nextId, now, tz, auth>>

\* the days parameters sent
RepeatQueries ==
    {[given |-> FALSE, value |-> 0], [given |-> TRUE, value |-> 1]}

InitRepeat ==
    /\ tz \in TzOffsets
    /\ \E k \in 0..(TicksPerDay - 1) : now = Midnight(AnalyticsToday) + k
    /\ \E marks \in [AnalyticsDays -> {"none", "done", "missed"}] :
          entries = HabitDayRecords(marks)
    /\ habits = InitHabits
    /\ reqs = [r \in Reqs |-> Idle]
    /\ nextId = 1
    /\ resp = NoResp
    /\ kept = NoResp
    /\ auth = NoProvider

NextRepeat ==
    \/ resp = NoResp /\ GetStreak("h1")
    \/ \E q \in RepeatQueries : GetHabitAnalytics("h1", q)
    \/ Keep
    \/ Tick

SpecRepeat == InitRepeat /\ [][NextRepeat]_vars

-----------------------------------------------------------------------------
(* getNextMilestone over the streaks up to MaxStreak *)

MaxStreak == 400

InitMilestone ==
    /\ tz = 0
    /\ now = 0
    /\ entries = {}
    /\ habits = InitHabits
    /\ reqs = [r \in Reqs |-> Idle]
    /\ kept = NoResp
    /\ auth = NoProvider
    /\ nextId = 1
    /\ \E s \in 0..MaxStreak : resp = [kind |-> "streakGiven", currentStreak |-> s]

ApplyNextMilestone ==
    /\ resp.kind = "streakGiven"
    /\ resp' = [kind |-> "milestone", currentStreak |-> resp.currentStreak,
                nextMilestone |-> getNextMilestone(resp.currentStreak)]
    /\ UNCHANGED <<entries, habits, reqs, nextId, now, tz, kept, auth>>

NextMilestone == ApplyNextMilestone

SpecMilestone == InitMilestone /\ [][NextMilestone]_vars

-----------------------------------------------------------------------------
(* Claims about the tracking store *)

\* C6: the store holds at most one tracking record per habit and calendar
\* day, after any sequence and interleaving of POST, PUT and DELETE requests
C6_OneRecordPerHabitDay ==
    \A e1 \in entries, e2 \in entries :
        (e1.habitId = e2.habitId /\ LocalDay(e1.date) = LocalDay(e2.date))
            => e1 = e2

\* C7: POST /api/tracking for an active habit is a create-or-update that
\* succeeds with 201 or 200, also when two requests for the same habit and
\* day are in flight together: no such request ends in a server error
\* (404 is the answer for a habit that is not active)
C7_PostCreatesOrUpdates ==
    \A r \in Reqs :
        (reqs[r].kind = "post" /\ reqs[r].pc = "done")
            => reqs[r].status \in {200, 201, 404}

-----------------------------------------------------------------------------
(* Claims about the habits router *)

\* C8: a PUT to /api/habits/reorder is served by the reorder handler, which
\* sets the order of each listed habit, leaves the other habits unchanged and
\* answers 200
C8_ReorderServed ==
    (resp.kind = "habits" /\ resp.segment = "reorder")
        => /\ resp.handler = "reorder"
           /\ resp.status = 200
           /\ \A h \in HabitIds :
                IF \E i \in 1..Len(resp.habitOrders) :
                     resp.habitOrders[i].habitId = h
                THEN \E i \in 1..Len(resp.habitOrders) :
                       /\ resp.habitOrders[i].habitId = h
                       /\ habits[h].order = resp.habitOrders[i].order
                       /\ habits[h].isActive = resp.before[h].isActive
                ELSE habits[h] = resp.before[h]

-----------------------------------------------------------------------------
(* Claims about the analytics *)

\* n / d rounded to the nearest integer, a half going up
RoundHalfUp(n, d) == (2 * n + d) \div (2 * d)

\* f[lo] + ... + f[hi]
RECURSIVE SumOver(_, _, _)
SumOver(f, lo, hi) ==
    IF lo > hi THEN 0
    ELSE IF lo = hi THEN f[lo]
    ELSE SumOver(f, lo, (lo + hi) \div 2) + SumOver(f, (lo + hi) \div 2 + 1, hi)

\* a rate that is a double is in [0, 100]
InPercentRange(x) == Leq(x, 100)

\* C3: every completion rate of the overview, of the per-habit analytics
\* (summary and weekly buckets) and of the trend buckets is in [0, 100], and
\* is 0 when its denominator (habits x days, tracked records, records of the
\* bucket) is 0
C3_RatesInRange ==
    /\ resp.kind = "overview" =>
          /\ resp.overview.completionRate \in 0..100
          /\ Cardinality(ActiveHabits) * ParseDays(resp.days) = 0
                => resp.overview.completionRate = 0
          /\ \A k \in DOMAIN resp.overview.weeklyTrends :
                InPercentRange(resp.overview.weeklyTrends[k].completionRate)
    /\ resp.kind = "habit" =>
          /\ resp.analytics.summary.completionRate \in 0..100
          /\ resp.analytics.summary.trackedDays = 0
                => resp.analytics.summary.completionRate = 0
          /\ \A k \in DOMAIN resp.analytics.weeklyData :
                LET w == resp.analytics.weeklyData[k]
                IN /\ InPercentRange(w.completionRate)
                   /\ w.totalDays = 0 => IsZero(w.completionRate)
    /\ resp.kind = "trends" =>
          \A k \in DOMAIN resp.body.trends :
             LET b == resp.body.trends[k]
             IN /\ InPercentRange(b.completionRate)
                /\ b.totalEntries = 0 => IsZero(b.completionRate)

\* C4: the heatmap of a year has one cell for each calendar day of that
\* year and no other cell, whatever the active habits and the records
C4_HeatmapCoversYear ==
    resp.kind = "heatmap" =>
        DOMAIN resp.body.heatmapData =
            YearStart(resp.body.year)..(YearStart(resp.body.year + 1) - 1)

\* C5: the totalEntries of the trend buckets add up to the number of
\* records fetched for the window [startDate, endDate]
C5_BucketsCountEveryRecord ==
    resp.kind = "trends" =>
        LET trends == resp.body.trends
            fetched == InWindow(entries,
                                now - PeriodDays(resp.body.period) * DayMs, now)
        IN SumOver([k \in DOMAIN trends |-> trends[k].totalEntries],
                   1, Len(trends))
             = Cardinality(fetched)

\* C9: the overview rate is round(100 * C / (H * D)): H the number of active
\* habits, D the days parameter, C the number of completed records of the
\* active habits in the window
C9_OverviewRateOverSlots ==
    (resp.kind = "overview" /\ ActiveHabits # {} /\ ParseDays(resp.days) > 0) =>
        LET D == ParseDays(resp.days)
            H == Cardinality(ActiveHabits)
            C == Cardinality({e \in entries :
                                /\ e.habitId \in ActiveHabits
                                /\ e.completed
                                /\ e.date >= now - D * DayMs
                                /\ e.date <= now})
        IN resp.overview.completionRate = RoundHalfUp(100 * C, H * D)

\* C10: the per-habit rate is round(100 * completedDays / trackedDays) over
\* the records of the habit in the window, and 0 when there is none
C10_HabitRateOverTracked ==
    resp.kind = "habit" =>
        LET D == ParseDays(resp.days)
            tracked == {e \in entries : /\ e.habitId = resp.habitId
                                        /\ e.date >= now - D * DayMs
                                        /\ e.date <= now}
            completedDays == Cardinality({e \in tracked : e.completed})
        IN resp.analytics.summary.completionRate =
              IF tracked = {} THEN 0
              ELSE RoundHalfUp(100 * completedDays, Cardinality(tracked))

-----------------------------------------------------------------------------
(* Claims about the per-habit analytics *)

\* the records of habit h in the window of D days that are completed and
\* have the field set
Qualifying(field, h, D) ==
    {e \in entries : /\ e.habitId = h
                     /\ e.date >= now - D * DayMs /\ e.date <= now
                     /\ e.completed /\ e[field] # None}

\* C11: the averageMood and averageDifficulty reported for a habit are the
\* mean of the field over the window records that are completed and have
\* the field set, and null when there is no such record
C11_AverageOverCompleted ==
    /\ resp.kind = "habit" =>
          /\ resp.analytics.summary.averageMood =
                AverageOf("mood", Qualifying("mood", resp.habitId,
                                             ParseDays(resp.days)))
          /\ resp.analytics.summary.averageDifficulty =
                AverageOf("difficulty", Qualifying("difficulty", resp.habitId,
                                                   ParseDays(resp.days)))
    /\ resp.kind = "habitDetail" =>
          /\ resp.analytics.averageMood =
                AverageOf("mood", Qualifying("mood", resp.habitId, DetailDays))
          /\ resp.analytics.averageDifficulty =
                AverageOf("difficulty",
                          Qualifying("difficulty", resp.habitId, DetailDays))

\* the records of habit h in the window of D days
WindowRecords(h, D) ==
    {e \in entries : /\ e.habitId = h
                     /\ e.date >= now - D * DayMs /\ e.date <= now}

\* the place of each record of W when W is put in ascending date order
RankByDate(W) == [e \in W |-> Cardinality({o \in W : o.date < e.date}) + 1]

\* n records in a row of W in date order, e the last, are all completed
RunEndsAt(W, rank, e, n) ==
    /\ n <= rank[e]
    /\ \A o \in W : (rank[o] <= rank[e] /\ rank[o] > rank[e] - n) => o.completed

\* C12: longestStreak is the length of the longest run of completed records
\* in a row when the window records of the habit are taken in ascending date
\* order; a day without a record does not end a run
C12_LongestRunOfRecords ==
    resp.kind = "habit" =>
        LET W == WindowRecords(resp.habitId, ParseDays(resp.days))
            rank == RankByDate(W)
            L == resp.analytics.summary.longestStreak
        IN /\ L = 0 \/ \E e \in W : RunEndsAt(W, rank, e, L)
           /\ ~\E e \in W : RunEndsAt(W, rank, e, L + 1)

\* a run of two that spans a day without a record, after a record that is
\* not completed
C12_Witness ==
    /\ resp.kind = "habit"
    /\ resp.analytics.summary.longestStreak = 2
    /\ LET W == WindowRecords(resp.habitId, ParseDays(resp.days))
       IN /\ \E a, b \in W :
                /\ a.completed /\ b.completed
                /\ LocalDay(b.date) - LocalDay(a.date) = 2
                /\ ~\E o \in W : a.date < o.date /\ o.date < b.date
          /\ \E o \in W : ~o.completed

RateMessages == {"Excellent", "Good progress", "Your completion rate"}

StreakMessages == {"Amazing", "Start building your streak"}

\* the places in the insight list of the messages of a kind
Places(insights, messages) ==
    {k \in DOMAIN insights : insights[k].message \in messages}

\* the insight list has exactly one completion rate message, of this type
OneRateInsight(insights, type) ==
    /\ Cardinality(Places(insights, RateMessages)) = 1
    /\ \A k \in Places(insights, RateMessages) : insights[k].type = type

\* C13: for the completion rate c / t of the window (0 without records)
\* there is exactly one completion rate message, of type success from 80,
\* warning from 60 to below 80, danger below 40, and none from 40 to below 60
C13_RateBands ==
    resp.kind = "habit" =>
        LET W == WindowRecords(resp.habitId, ParseDays(resp.days))
            t == Cardinality(W)
            c == Cardinality({e \in W : e.completed})
            insights == resp.analytics.insights
        IN IF t > 0 /\ 100 * c >= 80 * t THEN OneRateInsight(insights, "success")
           ELSE IF t > 0 /\ 100 * c >= 60 * t THEN OneRateInsight(insights, "warning")
           ELSE IF t = 0 \/ 100 * c < 40 * t THEN OneRateInsight(insights, "danger")
           ELSE Places(insights, RateMessages) = {}

\* a rate of exactly 40, for which there is no message
C13_Witness ==
    /\ resp.kind = "habit"
    /\ resp.analytics.summary.trackedDays > 0
    /\ 100 * resp.analytics.summary.completedDays
          = 40 * resp.analytics.summary.trackedDays
    /\ Places(resp.analytics.insights, RateMessages) = {}

\* C14: the streak success message is there exactly from a current streak
\* of 7, the 'start building your streak' message exactly for a streak of
\* 0, none from 1 to 6, and a completion rate message comes before a streak
\* message
C14_StreakBands ==
    resp.kind = "habit" =>
        LET insights == resp.analytics.insights
            streak == resp.analytics.summary.currentStreak
            amazing == Places(insights, {"Amazing"})
            start == Places(insights, {"Start building your streak"})
        IN /\ Cardinality(amazing) = IF streak >= 7 THEN 1 ELSE 0
           /\ Cardinality(start) = IF streak = 0 THEN 1 ELSE 0
           /\ \A k \in amazing : insights[k].type = "success"
           /\ \A k \in start : insights[k].type = "info" /\ insights[k].actionable
           /\ \A j \in Places(insights, RateMessages),
                 k \in Places(insights, StreakMessages) : j < k

\* a streak of at least 7 with a completion rate message before its message
C14_Witness ==
    /\ resp.kind = "habit"
    /\ resp.analytics.summary.currentStreak >= 7
    /\ Places(resp.analytics.insights, RateMessages) = {1}
    /\ Places(resp.analytics.insights, {"Amazing"}) = {2}

\* C15: the consistency message is there exactly when, of the last
\* min(7, n) of the n window records in ascending date order, more than 0.8
\* times their number are completed
C15_RecentConsistency ==
    resp.kind = "habit" =>
        LET W == WindowRecords(resp.habitId, ParseDays(resp.days))
            rank == RankByDate(W)
            recent == {e \in W : rank[e] > Cardinality(W) - 7}
            done == Cardinality({e \in recent : e.completed})
        IN (Places(resp.analytics.insights, {"Consistent"}) # {})
             <=> (5 * done > 4 * Cardinality(recent))

\* the message for the last 7 of more than 7 records, one of the 7 not
\* completed
C15_Witness ==
    /\ resp.kind = "habit"
    /\ Places(resp.analytics.insights, {"Consistent"}) # {}
    /\ LET W == WindowRecords(resp.habitId, ParseDays(resp.days))
       IN Cardinality(W) > 7 /\ \E e \in W : ~e.completed

\* C16: for a habit without any record the rate and the streak are 0, the
\* insights have the 'start building your streak' message and no completion
\* rate message
C16_NoRecordsNoRateInsight ==
    (resp.kind = "habit" /\ EntriesOf(resp.habitId) = {}) =>
        /\ resp.analytics.summary.completionRate = 0
        /\ resp.analytics.summary.currentStreak = 0
        /\ Places(resp.analytics.insights, {"Start building your streak"}) # {}
        /\ Places(resp.analytics.insights, RateMessages) = {}

\* C17: with a record in the window, the prediction has daysRemaining =
\* max(0, streakTarget - currentStreak), and estimatedDate = today +
\* daysRemaining exactly when daysRemaining > 0
C17_DaysRemaining ==
    (resp.kind = "habit"
       /\ WindowRecords(resp.habitId, ParseDays(resp.days)) # {}) =>
        LET p == resp.analytics.predictions.streakTarget
            remaining == Max(0, habits[resp.habitId].streakTarget
                                  - resp.analytics.summary.currentStreak)
        IN /\ ~p.null
           /\ p.daysRemaining = remaining
           /\ p.estimatedDate.null <=> remaining = 0
           /\ ~p.estimatedDate.null
                 => p.estimatedDate.day = LocalDay(now) + remaining

\* C18: getNextMilestone(s) is the smallest milestone above s with
\* remaining = milestone - s, and null only from s = 365
C18_NextMilestone ==
    resp.kind = "milestone" =>
        LET s == resp.currentStreak
            above == {m \in {7, 14, 21, 30, 60, 90, 180, 365} : m > s}
        IN IF s >= 365 THEN resp.nextMilestone.null
           ELSE /\ ~resp.nextMilestone.null
                /\ resp.nextMilestone.days \in above
                /\ \A m \in above : resp.nextMilestone.days <= m
                /\ resp.nextMilestone.remaining = resp.nextMilestone.days - s

\* a streak that is a milestone gets the milestone after it
C18_Witness ==
    /\ resp.kind = "milestone"
    /\ resp.currentStreak = 30
    /\ resp.nextMilestone = [null |-> FALSE, days |-> 60, remaining |-> 30]

\* the buckets of a window of D days that ends today, G days each: there are
\* ceil(D / G), bucket k starts (k - 1) * G days after the start and ends G
\* days later or, the last one, at the window's end
BucketsCover(buckets, D, G) ==
    /\ Len(buckets) = (D + G - 1) \div G
    /\ \A k \in DOMAIN buckets :
          /\ buckets[k].startDate = UTCDay(now) - D + (k - 1) * G
          /\ buckets[k].endDate = IF k * G <= D
                                  THEN buckets[k].startDate + G
                                  ELSE UTCDay(now)
          /\ k < Len(buckets) => buckets[k].endDate <= buckets[k + 1].startDate

\* C19: a window of D days in buckets of G days (trends: 1, 7 or 30 days;
\* weeklyData: 7 days) has ceil(D / G) buckets, made forward from startDate,
\* not overlapping, of G days each, the last one cut at endDate
C19_BucketCount ==
    /\ resp.kind = "trends" =>
          BucketsCover(resp.body.trends, PeriodDays(resp.body.period),
                       IF resp.body.groupBy = "day" THEN 1
                       ELSE IF resp.body.groupBy = "week" THEN 7 ELSE 30)
    /\ (resp.kind = "habit" /\ ParseDays(resp.days) >= 0) =>
          BucketsCover(resp.analytics.weeklyData, ParseDays(resp.days), 7)

\* a month by weeks: five buckets, the last one of two days
C19_Witness ==
    /\ resp.kind = "trends"
    /\ Len(resp.body.trends) = 5
    /\ resp.body.trends[4].endDate - resp.body.trends[4].startDate = 7
    /\ resp.body.trends[5].endDate - resp.body.trends[5].startDate = 2

\* C20: a days parameter that is missing or not positive is replaced by 30
C20_DefaultWindow ==
    /\ (resp.kind = "overview" /\ ActiveHabits # {}
          /\ (~resp.days.given \/ resp.days.value <= 0))
          => resp.overview.period = 30
    /\ (resp.kind = "habit" /\ (~resp.days.given \/ resp.days.value <= 0))
          => /\ resp.analytics.period = 30
             /\ resp.analytics.summary.totalDays = 30

-----------------------------------------------------------------------------
(* Claims about empty data, ratings out of the scale and repeated requests *)

\* the empty shape of a bucket of the trends, of a week of the per-habit
\* analytics, of a day of the overview and of a cell of the heatmap
EmptyBucket(b) ==
    b.totalEntries = 0 /\ b.completedEntries = 0 /\ IsZero(b.completionRate)

EmptyWeek(w) ==
    w.totalDays = 0 /\ w.completedDays = 0 /\ IsZero(w.completionRate)

EmptyDay(d) == d.completedHabits = 0 /\ IsZero(d.completionRate)

EmptyCell(c) ==
    c.completedHabits = 0 /\ IsZero(c.completionRate) /\ c.habits = <<>>

\* C21: with no active habit, or with no record in the window, the
\* overview, the per-habit analytics, the heatmap and the trends answer with
\* their empty shape: counts and rates 0, no category without an active
\* habit, longestStreak 0, predictions with streakTarget and nextMilestone
\* null and probabilityOfSuccess 0
C21_EmptyShape ==
    /\ resp.kind = "overview" =>
          LET D == ParseDays(resp.days)
              found == {e \in InWindow(entries, now - D * DayMs, now) :
                          e.habitId \in ActiveHabits}
          IN /\ ActiveHabits = {} =>
                   /\ resp.overview.totalHabits = 0
                   /\ resp.overview.completionRate = 0
                   /\ resp.overview.totalStreaks = 0
                   /\ resp.overview.longestStreak = 0
                   /\ resp.overview.weeklyTrends = <<>>
             /\ found = {} =>
                   /\ resp.overview.completionRate = 0
                   /\ \A k \in DOMAIN resp.overview.weeklyTrends :
                         EmptyDay(resp.overview.weeklyTrends[k])
    /\ resp.kind = "habit" =>
          LET D == ParseDays(resp.days)
              a == resp.analytics
          IN InWindow(EntriesOf(resp.habitId), now - D * DayMs, now) = {} =>
                /\ a.summary.trackedDays = 0
                /\ a.summary.completedDays = 0
                /\ a.summary.completionRate = 0
                /\ a.summary.longestStreak = 0
                /\ a.summary.averageMood.null
                /\ a.summary.averageDifficulty.null
                /\ \A k \in DOMAIN a.weeklyData : EmptyWeek(a.weeklyData[k])
                /\ a.predictions.streakTarget.null
                /\ a.predictions.nextMilestone.null
                /\ a.predictions.probabilityOfSuccess = 0
    /\ resp.kind = "trends" =>
          LET D == PeriodDays(resp.body.period)
          IN /\ (ActiveHabits = {} \/ InWindow(entries, now - D * DayMs, now) = {})
                   => \A k \in DOMAIN resp.body.trends :
                         EmptyBucket(resp.body.trends[k])
             /\ ActiveHabits = {} =>
                   /\ resp.body.habits = {}
                   /\ \A k \in DOMAIN resp.body.trends :
                         DOMAIN resp.body.trends[k].categoryBreakdown = {}
    /\ resp.kind = "heatmap" =>
          /\ ActiveHabits = {} =>
                resp.body.heatmapData = <<>> /\ resp.body.habits = {}
          /\ entries = {} =>
                \A key \in DOMAIN resp.body.heatmapData :
                   EmptyCell(resp.body.heatmapData[key])

\* whether a rating is a number of the scale
InScale(x) == x >= MinRating /\ x <= MaxRating

\* C22: a record whose mood or difficulty is outside the scale is left out
\* of the average: the averageMood and averageDifficulty of the per-habit
\* analytics are the mean (to one decimal, as reported) over the completed
\* window records whose field is in the scale
C22_AverageOverScale ==
    resp.kind = "habit" =>
        LET D == ParseDays(resp.days)
            inScale(field) == {e \in Qualifying(field, resp.habitId, D) :
                                 InScale(e[field])}
        IN /\ resp.analytics.summary.averageMood =
                 RoundToTenth(AverageOf("mood", inScale("mood")))
           /\ resp.analytics.summary.averageDifficulty =
                 RoundToTenth(AverageOf("difficulty", inScale("difficulty")))

\* the client has the responses to two requests that are the same
SameRequest ==
    /\ kept # NoResp /\ resp # NoResp
    /\ kept.resp.kind = resp.kind
    /\ kept.resp.habitId = resp.habitId
    /\ resp.kind = "habit" => kept.resp.days = resp.days

\* the streak, and the statistics, of a response
StreakOf(r) ==
    IF r.kind = "streak" THEN r.currentStreak
    ELSE r.analytics.summary.currentStreak

StatisticsOf(r) ==
    IF r.kind = "streak" THEN r.currentStreak ELSE r.analytics.summary

\* C23 as stated: two evaluations of getCurrentStreak, or of the per-habit
\* statistics, over the same stored records and with the same request
\* parameters give the same result
C23_SameRecordsSameResult ==
    SameRequest => StatisticsOf(kept.resp) = StatisticsOf(resp)

\* C23 amended: over the same stored records, two evaluations of the streak
\* on the same local calendar day of the server give the same streak, and
\* two evaluations of the per-habit statistics with the same parameters at
\* the same instant give the same statistics
C23_SameDaySameStreak ==
    SameRequest =>
        /\ LocalDay(kept.now) = LocalDay(now)
              => StreakOf(kept.resp) = StreakOf(resp)
        /\ kept.now = now => StatisticsOf(kept.resp) = StatisticsOf(resp)

\* C23 witness: the streak asked for twice on one day, at different times of
\* the day, with a streak of several days
C23_Witness ==
    /\ SameRequest
    /\ resp.kind = "streak"
    /\ kept.now # now /\ LocalDay(kept.now) = LocalDay(now)
    /\ resp.currentStreak >= 2

-----------------------------------------------------------------------------
(* Claims about the limit of the streak query *)

\* the completed records of habit h dated on a day after today
FutureCompleted(h) ==
    {e \in entries : e.habitId = h /\ e.completed
                     /\ LocalDay(e.date) > LocalDay(now)}

\* the completed records of habit h lie on different days
OneCompletedPerDay(h) ==
    \A e, o \in {x \in entries : x.habitId = h /\ x.completed} :
        LocalDay(e.date) = LocalDay(o.date) => e = o

\* C25: getCurrentStreak is at most 100, and at most 100 less the number of
\* completed records dated after today; where the completed records lie on
\* different days and the run of completed days that ends today or
\* yesterday is at least that long, the streak is exactly that number
C25_StreakWithinLimit ==
    resp.kind = "streak" =>
        LET h == resp.habitId
            today == LocalDay(now)
            anchor == IF CompletedOn(h, today) THEN today ELSE today - 1
            countable == Max(0, StreakLimit - Cardinality(FutureCompleted(h)))
        IN /\ resp.currentStreak <= StreakLimit
           /\ resp.currentStreak <= countable
           /\ (OneCompletedPerDay(h) /\ CompletedDaysBack(h, anchor) >= countable)
                 => resp.currentStreak = countable

\* C25 witness: more than 100 completed days in a row up to today and a
\* completed record dated tomorrow; the streak is 99
C25_Witness ==
    /\ resp.kind = "streak" /\ resp.habitId = "h1"
    /\ Cardinality(FutureCompleted("h1")) = 1
    /\ CompletedDaysBack("h1", LocalDay(now)) > StreakLimit
    /\ resp.currentStreak = StreakLimit - 1

\* the records of habit h are dated at local midnight, one a day
MidnightRecords(h) ==
    \A e \in EntriesOf(h) :
        /\ e.date = Midnight(LocalDay(e.date))
        /\ \A o \in EntriesOf(h) : o.date = e.date => o = e

-----------------------------------------------------------------------------
(* Claims about soft deletion *)

\* the habits whose document has isActive true
StillActive == {h \in HabitIds : habits[h].isActive}

\* a response that the step computes
Answers(kind) == resp' # resp /\ resp'.kind = kind

\* C24: DELETE /api/habits/:id leaves the habit's document and every record
\* in place and sets isActive to false; GET /api/habits lists, and the
\* overview, trends and heatmap count, exactly the habits still active; a
\* POST /api/tracking that begins while its habit is inactive answers 404
\* and changes no record; an inactive habit becomes active only through
\* PUT /api/habits/:id for it
C24_SoftDelete ==
    [][/\ Answers("habitDeleted") =>
             /\ entries' = entries
             /\ habits' = [habits EXCEPT ![resp'.habitId].isActive = FALSE]
       /\ Answers("list") =>
             /\ {resp'.habits[i] : i \in DOMAIN resp'.habits} = StillActive
             /\ resp'.total = Cardinality(StillActive)
       /\ Answers("overview") =>
             resp'.overview.totalHabits = Cardinality(StillActive)
       /\ Answers("trends") =>
             /\ resp'.body.habits = StillActive
             /\ \A k \in DOMAIN resp'.body.trends :
                  LET breakdown == resp'.body.trends[k].categoryBreakdown
                  IN \A c \in DOMAIN breakdown :
                        breakdown[c].total =
                            Cardinality({h \in StillActive :
                                           habits[h].category = c})
       /\ Answers("heatmap") =>
             /\ resp'.body.habits = StillActive
             /\ \A key \in DOMAIN resp'.body.heatmapData :
                  resp'.body.heatmapData[key].totalHabits
                      = Cardinality(StillActive)
       /\ (reqs[1].pc = "idle" /\ reqs'[1].pc # "idle") =>
             IF reqs'[1].pc = "save"
             THEN habits[reqs'[1].habitId].isActive
             ELSE reqs'[1] = Done("post", 404) /\ entries' = entries
       /\ \A h \in HabitIds :
             (~habits[h].isActive /\ habits'[h].isActive) =>
                /\ resp'.kind = "habits" /\ resp'.handler = "update"
                /\ resp'.segment = h
      ]_vars

\* C24 witness: h1 was deleted and has kept its record; a POST for it is
\* answered 404 and the list that follows holds h2 alone
C24_Witness ==
    /\ ~habits["h1"].isActive /\ habits["h2"].isActive
    /\ \E e \in entries : e.habitId = "h1"
    /\ reqs[1] = Done("post", 404)
    /\ resp.kind = "list" /\ resp.habits = <<"h2">>

\* C27: in a heatmap response every cell has completedHabits at most
\* totalHabits and completionRate at most 100, and lists in its habits
\* detail only habits that the response names as active
C27_CellWithinActive ==
    resp.kind = "heatmap" =>
        \A key \in DOMAIN resp.body.heatmapData :
            LET cell == resp.body.heatmapData[key]
            IN /\ cell.completedHabits <= cell.totalHabits
               /\ Leq(cell.completionRate, 100)
               /\ \A i \in DOMAIN cell.habits :
                     cell.habits[i].habitId \in resp.body.habits

-----------------------------------------------------------------------------
(* Claims about two users *)

\* C28: no request of u1 changes a habit or a record of u2, or the userId or
\* habitId of any record, and what u2 is answered stays as it was
C28_Isolation ==
    [][/\ \A h \in HabitIds :
             (habits[h].userId = "u2" \/ habits'[h].userId = "u2")
                => habits'[h] = habits[h]
       /\ TrackingFor("u2")' = TrackingFor("u2")
       /\ \A e \in entries, o \in entries' :
             e.id = o.id => (o.userId = e.userId /\ o.habitId = e.habitId)
       /\ ResponsesFor("u2")' = ResponsesFor("u2")
      ]_vars

-----------------------------------------------------------------------------
(* Claims about creating habits *)

\* C30: a habit is saved with an order above the order of every habit the
\* user has by then, 0 for the first, so that the orders of the user's
\* habits are pairwise distinct
C30_OrdersDistinct ==
    [][\A h \in DOMAIN habits' \ DOMAIN habits :
          /\ \A g \in DOMAIN habits : habits'[h].order > habits[g].order
          /\ DOMAIN habits = {} => habits'[h].order = 0
          /\ \A g, k \in DOMAIN habits' :
                g # k => habits'[g].order # habits'[k].order
      ]_vars

-----------------------------------------------------------------------------
(* Claims about the frontend's auth state *)

\* C29: once logout() has run, user and token of the auth state are null
\* and stay null until a login or register call made after it succeeds,
\* whatever answers to calls made before it arrive after it; and AUTH_FAILURE
\* leaves both null
C29_LoggedOutStaysNull ==
    /\ auth.loggedOut => (auth.state.user = null /\ auth.state.token = null)
    /\ LET failed == authReducer(auth.state, [type |-> "AUTH_FAILURE",
                                              payload |-> "failed"])
       IN failed.user = null /\ failed.token = null

====
